---- MODULE Spec2Model ----
(***************************************************************************)
(* The MaidCode evaluator (src/src/interpreting, src/src/values) as an     *)
(* abstract machine.                                                       *)
(*                                                                         *)
(* The Rust evaluator is a recursive visitor: Interpreter::visit calls a   *)
(* visit_* handler, which calls visit on its children.  Here the host call *)
(* stack is explicit: `stack` holds one frame per handler activation, a    *)
(* handler that calls visit pushes a frame, and a handler that returns     *)
(* pops its frame and leaves its RuntimeResult in `ret`, where the caller  *)
(* registers it.  Every handler is one action; its `pc` names the call of  *)
(* visit it is waiting for.                                                *)
(*                                                                         *)
(* Source spans (Position) are not modelled.  The context reference that   *)
(* every value carries is kept for function and built-in values only,      *)
(* the two kinds whose behaviour reads it (generate_new_context).          *)
(* Numbers are integers; the index of a list also takes the half-integers  *)
(* (ListIndex), where the cast of the f64 to an index matters.             *)
(***************************************************************************)
EXTENDS Integers, Sequences, FiniteSets, TLC

(***************************************************************************)
(* Bounds of the model.                                                    *)
(***************************************************************************)
MaxSteps == 160         \* handler steps taken in one run
MaxDepth == 16         \* frames on the host call stack
MaxNum == 2            \* largest literal of the generated programs

VARIABLES
    prog,       \* the root node handed to Interpreter::visit by run()
    tables,     \* the SymbolTable objects, by allocation order
    contexts,   \* the Context objects, by allocation order
    stack,      \* the activations of visit_* / execute, innermost last
    ret,        \* the RuntimeResult the last finished activation returned
    status,     \* "running", "done", "panic" (an unwrap of None), "overflow"
    out,        \* the lines written to standard output
    steps       \* number of handler steps taken

vars == <<prog, tables, contexts, stack, ret, status, out, steps>>

(***************************************************************************)
(* Option<T>: None is NoneV, Some(x) is x.                                 *)
(***************************************************************************)
NoneV == [t |-> "none"]
NoNode == [k |-> "None"]
HasNode(n) == n.k # "None"
IsSome(x) == x.t # "none"
IsNone(x) == x.t = "none"

(***************************************************************************)
(* AST nodes (src/src/nodes).  A block and a list literal are both the     *)
(* List node, as in the parser.                                            *)
(***************************************************************************)
NumberNode(v) == [k |-> "Number", value |-> v]
StringNode(s) == [k |-> "Strings", value |-> s]
ListNode(elements) == [k |-> "List", element_nodes |-> elements]
VariableAccessNode(name) == [k |-> "VariableAccess", var_name |-> name]
VariableAssignNode(name, value) ==
    [k |-> "VariableAssign", var_name |-> name, value_node |-> value]
ConstAssignNode(name, value) ==
    [k |-> "ConstAssign", const_name |-> name, value_node |-> value]
\* cases: sequence of IfCase; else_case: NoneV or an ElseCase
IfCase(condition, expr, should_return_null) ==
    [condition |-> condition, expr |-> expr, should_return_null |-> should_return_null]
ElseCase(expr, should_return_null) ==
    [t |-> "else", expr |-> expr, should_return_null |-> should_return_null]
IfNode(cases, else_case) == [k |-> "If", cases |-> cases, else_case |-> else_case]
ForNode(name, start, end, step, body) ==
    [k |-> "For", var_name |-> name, start_value_node |-> start,
     end_value_node |-> end, step_value_node |-> step, body_node |-> body]
WhileNode(condition, body) ==
    [k |-> "While", condition_node |-> condition, body_node |-> body]
TryExceptNode(try_body, except_body, error_name) ==
    [k |-> "TryExcept", try_body_node |-> try_body,
     except_body_node |-> except_body, error_name |-> error_name]
FunctionDefinitionNode(name, arg_names, body, should_auto_return) ==
    [k |-> "FunctionDefinition", var_name |-> name, arg_names |-> arg_names,
     body_node |-> body, should_auto_return |-> should_auto_return]
CallNode(node_to_call, arg_nodes) ==
    [k |-> "Call", node_to_call |-> node_to_call, arg_nodes |-> arg_nodes]
BinaryOperatorNode(left, op, right) ==
    [k |-> "BinaryOperator", left_node |-> left, op |-> op, right_node |-> right]
UnaryOperatorNode(op, node) == [k |-> "UnaryOperator", op |-> op, node |-> node]
ReturnNode(node_to_return) == [k |-> "Return", node_to_return |-> node_to_return]
\* filename is the filename of pos_start, the name the lexer of the
\* containing file was given
ImportNode(node_to_import, filename) ==
    [k |-> "Import", node_to_import |-> node_to_import, filename |-> filename]
ContinueNode == [k |-> "Continue"]
BreakNode == [k |-> "Break"]

(***************************************************************************)
(* Values (src/src/values).                                                *)
(***************************************************************************)
NumberValue(v) == [t |-> "number", value |-> v]
StringValue(s) == [t |-> "string", value |-> s]
ListValue(elements) == [t |-> "list", elements |-> elements]
\* defined_in is a history field: the context current at the definition.
\* No handler reads it.
FunctionValue(name, body, arg_names, auto, ctx) ==
    [t |-> "function", name |-> name, body_node |-> body, arg_names |-> arg_names,
     should_auto_return |-> auto, context |-> ctx, defined_in |-> ctx]
BuiltInFunction(name) == [t |-> "builtin", name |-> name, context |-> 0]

null_value == NumberValue(0)
true_value == NumberValue(1)
false_value == NumberValue(0)

SetContext(value, ctx) ==
    IF value.t \in {"function", "builtin"} THEN [value EXCEPT !.context = ctx]
    ELSE value

BoolNumber(b) == NumberValue(IF b THEN 1 ELSE 0)

\* a truthiness that takes the non-empty string or list for true
is_true_nonempty(value) ==
    CASE value.t = "number" -> value.value # 0
      [] value.t = "list" -> value.elements # <<>>
      [] value.t = "string" -> value.value # ""
      [] OTHER -> value.name # ""

is_true(value) ==
    CASE value.t = "number" -> value.value # 0
      [] value.t = "list" -> value.elements = <<>>
      [] value.t = "string" -> value.value = ""
      [] OTHER -> value.name = ""

object_type(value) ==
    CASE value.t = "number" -> "number"
      [] value.t = "list" -> "list"
      [] value.t = "string" -> "string"
      [] value.t = "function" -> "function"
      [] OTHER -> "built-in-function"

RECURSIVE JoinStrings(_)
JoinStrings(strs) ==
    IF strs = <<>> THEN ""
    ELSE IF Len(strs) = 1 THEN strs[1]
    ELSE strs[1] \o ", " \o JoinStrings(Tail(strs))

RECURSIVE as_string(_)
as_string(value) ==
    CASE value.t = "number" -> ToString(value.value)
      [] value.t = "string" -> value.value
      [] value.t = "list" ->
            "[" \o JoinStrings([i \in 1..Len(value.elements) |->
                                   as_string(value.elements[i])]) \o "]"
      [] value.t = "function" -> "function: " \o value.name
      [] OTHER -> "built-in-function: " \o value.name

(***************************************************************************)
(* StandardError: the message text and the optional help line.             *)
(***************************************************************************)
StandardError(text, help) == [t |-> "error", text |-> text, help |-> help]

Some(x) == [t |-> "some", value |-> x]

ArityHelp(name, takes, gave) ==
    name \o " takes " \o ToString(takes)
         \o " positional argument(s) but the program gave " \o ToString(gave)

(***************************************************************************)
(* RuntimeResult (src/src/interpreting/runtime_result.rs).                 *)
(***************************************************************************)
RuntimeResultNew ==
    [value |-> NoneV, error |-> NoneV, func_return_value |-> NoneV,
     loop_should_continue |-> FALSE, loop_should_break |-> FALSE]

\* register copies the four signals of the visited result into `result`;
\* the value it hands back is r.value.
Register(result, r) ==
    [result EXCEPT !.error = r.error,
                   !.func_return_value = r.func_return_value,
                   !.loop_should_continue = r.loop_should_continue,
                   !.loop_should_break = r.loop_should_break]

Success(value) == [RuntimeResultNew EXCEPT !.value = value]
\* a success_return that stores the value as an ordinary value
SuccessReturnAsValue(value) == [RuntimeResultNew EXCEPT !.value = value]
\* a success_return that does not reset the value
SuccessReturnKeepingValue(value) ==
    [RuntimeResultNew EXCEPT !.value = value, !.func_return_value = value]
SuccessReturn(value) == [RuntimeResultNew EXCEPT !.func_return_value = value]
SuccessContinue == [RuntimeResultNew EXCEPT !.loop_should_continue = TRUE]
SuccessBreak == [RuntimeResultNew EXCEPT !.loop_should_break = TRUE]
Failure(error) == [RuntimeResultNew EXCEPT !.error = error]

ShouldReturn(result) ==
    \/ IsSome(result.error)
    \/ IsSome(result.func_return_value)
    \/ result.loop_should_continue
    \/ result.loop_should_break

\* `ret` between the call of visit and its return
NoRet == [t |-> "noret"]

(***************************************************************************)
(* SymbolTable (src/src/interpreting/symbol_table.rs).  A table is         *)
(* [symbols, parent]; parent 0 is None.                                    *)
(***************************************************************************)
EmptyMap == [n \in {} |-> NoneV]

SymbolTableNew(parent) == [symbols |-> EmptyMap, parent |-> parent]

Bound(tbls, st, name) == name \in DOMAIN tbls[st].symbols

RECURSIVE SymbolTableGet(_, _, _)
SymbolTableGet(tbls, st, name) ==
    IF Bound(tbls, st, name) THEN tbls[st].symbols[name]
    ELSE IF tbls[st].parent # 0 THEN SymbolTableGet(tbls, tbls[st].parent, name)
    ELSE NoneV

MapPut(m, name, value) ==
    [n \in DOMAIN m \cup {name} |-> IF n = name THEN value ELSE m[n]]

\* a set that rewrites the nearest existing binding of the name
RECURSIVE OwnerTable(_, _, _)
OwnerTable(tbls, st, name) ==
    IF Bound(tbls, st, name) \/ tbls[st].parent = 0 THEN st
    ELSE OwnerTable(tbls, tbls[st].parent, name)

SymbolTableSetNearest(tbls, st, name, value) ==
    IF name = "_" THEN tbls
    ELSE IF IsSome(SymbolTableGet(tbls, st, name))
    THEN [tbls EXCEPT ![OwnerTable(tbls, st, name)].symbols = MapPut(@, name, value)]
    ELSE [tbls EXCEPT ![st].symbols = MapPut(@, name, value)]

SymbolTableSet(tbls, st, name, value) ==
    IF name = "_" THEN tbls
    ELSE [tbls EXCEPT ![st].symbols = MapPut(@, name, value)]

(***************************************************************************)
(* Context (src/src/interpreting/context.rs).                              *)
(***************************************************************************)
ContextNew(display_name, parent, st) ==
    [display_name |-> display_name, parent |-> parent, symbol_table |-> st]

TableOf(ctxs, ctx) == ctxs[ctx].symbol_table

(***************************************************************************)
(* perform_operation of each value kind.  The result is the value of Ok or *)
(* the StandardError of Err.  The receiver is never changed: Value::       *)
(* perform_operation works on a copy of a list, and the number and string  *)
(* routines build a new value.                                             *)
(***************************************************************************)
IsErr(x) == x.t = "error"

RECURSIVE Power(_, _)
Power(base, exponent) ==
    IF exponent = 0 THEN 1 ELSE base * Power(base, exponent - 1)

RECURSIVE Repeat(_, _)
Repeat(s, n) == IF n = 0 THEN "" ELSE s \o Repeat(s, n - 1)

RECURSIVE ReverseString(_)
ReverseString(s) ==
    IF Len(s) = 0 THEN ""
    ELSE ReverseString(SubSeq(s, 2, Len(s))) \o SubSeq(s, 1, 1)

ReverseSeq(s) == [i \in 1..Len(s) |-> s[Len(s) + 1 - i]]

RemoveAt(s, index) == SubSeq(s, 1, index) \o SubSeq(s, index + 2, Len(s))

\* a number operation whose power accepts the exponent 0
NumberPerformOperationPowerZero(self, operator, other) ==
    IF other.t = "number" THEN
        LET left_val == self.value
            right_val == other.value
        IN  CASE operator = "+" -> NumberValue(left_val + right_val)
              [] operator = "-" -> NumberValue(left_val - right_val)
              [] operator = "*" -> NumberValue(left_val * right_val)
              [] operator = "/" ->
                    IF right_val = 0 THEN StandardError("division by zero", NoneV)
                    ELSE NumberValue(left_val \div right_val)
              [] operator = "^" ->
                    IF right_val < 0
                    THEN StandardError("powered by operator less than or equal to 0", NoneV)
                    ELSE NumberValue(Power(left_val, right_val))
              [] operator = "%" ->
                    IF right_val <= 0
                    THEN StandardError("modded by operator less than or equal to 0", NoneV)
                    ELSE NumberValue(left_val % right_val)
              [] operator = "==" -> BoolNumber(left_val = right_val)
              [] operator = "!=" -> BoolNumber(left_val # right_val)
              [] operator = "<" -> BoolNumber(left_val < right_val)
              [] operator = ">" -> BoolNumber(left_val > right_val)
              [] operator = "<=" -> BoolNumber(left_val <= right_val)
              [] operator = ">=" -> BoolNumber(left_val >= right_val)
              [] operator = "and" -> BoolNumber(left_val # 0 /\ right_val # 0)
              [] operator = "or" -> BoolNumber(left_val # 0 \/ right_val # 0)
              [] operator = "not" -> NumberValue(IF left_val = 0 THEN 1 ELSE 0)
              [] OTHER -> StandardError("operation not supported by type", NoneV)
    ELSE StandardError("operation not supported by type", NoneV)

\* Number::perform_operation.  A quotient is exact only when the divisor
\* divides the dividend; the programs of this model divide no other pair.
NumberPerformOperation(self, operator, other) ==
    IF other.t = "number" THEN
        LET left_val == self.value
            right_val == other.value
        IN  CASE operator = "+" -> NumberValue(left_val + right_val)
              [] operator = "-" -> NumberValue(left_val - right_val)
              [] operator = "*" -> NumberValue(left_val * right_val)
              [] operator = "/" ->
                    IF right_val = 0 THEN StandardError("division by zero", NoneV)
                    ELSE NumberValue(left_val \div right_val)
              [] operator = "^" ->
                    IF right_val <= 0
                    THEN StandardError("powered by operator less than or equal to 0", NoneV)
                    ELSE NumberValue(Power(left_val, right_val))
              [] operator = "%" ->
                    IF right_val <= 0
                    THEN StandardError("modded by operator less than or equal to 0", NoneV)
                    ELSE NumberValue(left_val % right_val)
              [] operator = "==" -> BoolNumber(left_val = right_val)
              [] operator = "!=" -> BoolNumber(left_val # right_val)
              [] operator = "<" -> BoolNumber(left_val < right_val)
              [] operator = ">" -> BoolNumber(left_val > right_val)
              [] operator = "<=" -> BoolNumber(left_val <= right_val)
              [] operator = ">=" -> BoolNumber(left_val >= right_val)
              [] operator = "and" -> BoolNumber(left_val # 0 /\ right_val # 0)
              [] operator = "or" -> BoolNumber(left_val # 0 \/ right_val # 0)
              [] operator = "not" -> NumberValue(IF left_val = 0 THEN 1 ELSE 0)
              [] OTHER -> StandardError("operation not supported by type", NoneV)
    ELSE StandardError("operation not supported by type", NoneV)

\* Str::perform_operation
StrPerformOperation(self, operator, other) ==
    CASE other.t = "string" ->
            CASE operator = "+" -> StringValue(self.value \o other.value)
              [] operator = "-" -> StringValue(other.value)
              [] operator = "==" -> BoolNumber(self.value = other.value)
              [] operator = "!=" -> BoolNumber(self.value # other.value)
              [] operator = "and" -> BoolNumber(self.value # "" /\ other.value # "")
              [] operator = "or" -> BoolNumber(self.value # "" \/ other.value # "")
              [] OTHER -> StandardError("operation not supported by the string type", NoneV)
      [] other.t = "number" ->
            CASE operator = "*" ->
                    IF other.value < 0
                    THEN StandardError("cannot multiply string by a negative value", NoneV)
                    ELSE StringValue(Repeat(self.value, other.value))
              [] operator = "^" ->
                    IF other.value < -1
                    THEN StandardError("cannot access a negative index",
                            Some("use an index greater than or equal to 0 or use -1 to reverse the string"))
                    ELSE IF other.value = -1 THEN StringValue(ReverseString(self.value))
                    ELSE IF other.value >= Len(self.value)
                    THEN StandardError("index is out of bounds", NoneV)
                    ELSE StringValue(SubSeq(self.value, other.value + 1, other.value + 1))
              [] OTHER -> StandardError("operation not supported by the string type", NoneV)
      [] OTHER -> StandardError("operation not supported by the string type", NoneV)

RECURSIVE PerformOperation(_, _, _)
RECURSIVE ListCompare(_, _, _, _, _)

\* `value as usize`: the cast of an f64 truncates toward zero and saturates,
\* so that every negative number gives 0.  The number is given in halves.
AsUsize(twice) == IF twice < 0 THEN 0 ELSE twice \div 2

\* the "^" of a list and a number (list.rs:84-110), the number in halves
ListIndex(elements, twice) ==
    IF twice < -2
    THEN StandardError("cannot access a negative index",
            Some("use an index greater than or equal to 0 or use -1 to reverse the list"))
    ELSE IF twice = -2 THEN ListValue(ReverseSeq(elements))
    ELSE IF AsUsize(twice) >= Len(elements)
    THEN StandardError("index is out of bounds", NoneV)
    ELSE elements[AsUsize(twice) + 1]

\* the zip loop of the list "==" and "!=": the result of the last pair
\* compared, or the first error
ListCompare(left, right, operator, i, acc) ==
    IF i > Len(left) \/ i > Len(right) THEN acc
    ELSE LET result == PerformOperation(left[i], operator, right[i])
         IN  IF IsErr(result) THEN result
             ELSE ListCompare(left, right, operator, i + 1, result)

\* List::perform_operation
ListPerformOperation(self, operator, other) ==
    IF operator = "*" THEN ListValue(Append(self.elements, other))
    ELSE CASE other.t = "list" ->
            CASE operator = "+" -> ListValue(self.elements \o other.elements)
              [] operator \in {"==", "!="} ->
                    ListCompare(self.elements, other.elements, operator, 1, null_value)
              [] operator = "and" ->
                    BoolNumber(self.elements # <<>> /\ other.elements # <<>>)
              [] operator = "or" ->
                    BoolNumber(self.elements # <<>> \/ other.elements # <<>>)
              [] OTHER -> StandardError("operation not supported by type", NoneV)
      [] other.t = "number" ->
            CASE operator = "^" -> ListIndex(self.elements, 2 * other.value)
              [] operator = "-" ->
                    IF other.value < 0
                    THEN StandardError("cannot access a negative index",
                            Some("use an index greater than or equal to 0"))
                    ELSE IF other.value >= Len(self.elements)
                    THEN StandardError("index is out of bounds", NoneV)
                    ELSE ListValue(RemoveAt(self.elements, other.value))
              [] OTHER -> StandardError("operation not supported by type", NoneV)
      [] OTHER -> StandardError("operation not supported by type", NoneV)

\* Value::perform_operation
PerformOperation(self, operator, other) ==
    CASE self.t = "number" -> NumberPerformOperation(self, operator, other)
      [] self.t = "list" -> ListPerformOperation(self, operator, other)
      [] self.t = "string" -> StrPerformOperation(self, operator, other)
      [] OTHER -> StandardError("type doesn't support the '" \o operator \o "' operator", NoneV)

(***************************************************************************)
(* The machine.                                                            *)
(***************************************************************************)
BuiltInNames ==
    <<"serve", "process", "sweep", "stash", "tostring", "tonumber", "length",
      "uhoh", "type", "run", "_env">>

\* the global_symbol_table built by Interpreter::new
GlobalSymbolTable ==
    [symbols |-> [n \in {BuiltInNames[i] : i \in 1..Len(BuiltInNames)} |->
                     BuiltInFunction(n)],
     parent |-> 0]

NewFrame(node, ctx, interp) ==
    [node |-> node, ctx |-> ctx, interp |-> interp, pc |-> "start",
     result |-> RuntimeResultNew, loc |-> NoneV]

Top == stack[Len(stack)]

Running == status = "running" /\ stack # <<>> /\ steps < MaxSteps

\* the symbol table of the context an activation runs in
St(f) == TableOf(contexts, f.ctx)

\* interpreter.visit(node, ctx) called by activation f, which becomes f
\* again when the visit returns
VisitWith(f, node, ctx, interp) ==
    IF Len(stack) >= MaxDepth
    THEN status' = "overflow" /\ UNCHANGED <<stack, ret>>
    ELSE /\ stack' = Append([stack EXCEPT ![Len(stack)] = f], NewFrame(node, ctx, interp))
         /\ ret' = NoRet
         /\ UNCHANGED status

Visit(f, node) == VisitWith(f, node, f.ctx, f.interp)

\* the activation returns r to its caller; the root activation returns to run()
Return(r) ==
    /\ stack' = SubSeq(stack, 1, Len(stack) - 1)
    /\ ret' = r
    /\ status' = IF Len(stack) = 1 THEN "done" ELSE status

\* unwrap of None
Panic == status' = "panic" /\ UNCHANGED <<stack, ret>>

Tick == steps' = steps + 1 /\ UNCHANGED prog

Or(a, b) == IF IsSome(a) THEN a ELSE b

----------------------------------------------------------------------------
visit_number_node ==
    /\ Running /\ Top.node.k = "Number"
    /\ Return(Success(NumberValue(Top.node.value)))
    /\ Tick /\ UNCHANGED <<tables, contexts, out>>

visit_string_node ==
    /\ Running /\ Top.node.k = "Strings"
    /\ Return(Success(StringValue(Top.node.value)))
    /\ Tick /\ UNCHANGED <<tables, contexts, out>>

\* the loop of visit_list_node over element_nodes
ListNext(f) ==
    IF f.loc.idx <= Len(f.node.element_nodes)
    THEN Visit([f EXCEPT !.pc = "element"], f.node.element_nodes[f.loc.idx])
    ELSE Return(Success(ListValue(f.loc.elements)))

visit_list_node ==
    /\ Running /\ Top.node.k = "List"
    /\ IF Top.pc = "start"
       THEN ListNext([Top EXCEPT !.loc = [idx |-> 1, elements |-> <<>>]])
       ELSE LET result == Register(Top.result, ret)
            IN  IF ShouldReturn(result) THEN Return(result)
                ELSE IF IsNone(ret.value) THEN Panic
                ELSE ListNext([Top EXCEPT !.result = result,
                                          !.loc = [idx |-> @.idx + 1,
                                                   elements |-> Append(@.elements, ret.value)]])
    /\ Tick /\ UNCHANGED <<tables, contexts, out>>

visit_variable_assign_node ==
    /\ Running /\ Top.node.k = "VariableAssign"
    /\ IF Top.pc = "start"
       THEN Visit([Top EXCEPT !.pc = "value"], Top.node.value_node)
            /\ UNCHANGED tables
       ELSE LET result == Register(Top.result, ret)
            IN  IF ShouldReturn(result) THEN Return(result) /\ UNCHANGED tables
                ELSE /\ tables' = SymbolTableSet(tables, St(Top), Top.node.var_name, ret.value)
                     /\ Return(Success(ret.value))
    /\ Tick /\ UNCHANGED <<contexts, out>>

visit_const_assign_node ==
    /\ Running /\ Top.node.k = "ConstAssign"
    /\ IF Top.pc = "start"
       THEN Visit([Top EXCEPT !.pc = "value"], Top.node.value_node)
            /\ UNCHANGED tables
       ELSE LET result == Register(Top.result, ret)
            IN  IF ShouldReturn(result) THEN Return(result) /\ UNCHANGED tables
                ELSE IF IsSome(SymbolTableGet(tables, St(Top), Top.node.const_name))
                THEN Return(Failure(StandardError("cannot reassign the value of a constant", NoneV)))
                     /\ UNCHANGED tables
                ELSE /\ tables' = SymbolTableSet(tables, St(Top), Top.node.const_name, ret.value)
                     /\ Return(Success(ret.value))
    /\ Tick /\ UNCHANGED <<contexts, out>>

visit_variable_access_node ==
    /\ Running /\ Top.node.k = "VariableAccess"
    /\ LET value == SymbolTableGet(tables, St(Top), Top.node.var_name)
       IN  IF IsNone(value)
           THEN Return(Failure(StandardError(
                    "variable name '" \o Top.node.var_name \o "' is undefined", NoneV)))
           ELSE Return(Success(SetContext(value, Top.ctx)))
    /\ Tick /\ UNCHANGED <<tables, contexts, out>>

\* the loop of visit_if_node over the cases, then the else case
IfNext(f) ==
    IF f.loc.idx <= Len(f.node.cases)
    THEN Visit([f EXCEPT !.pc = "condition"], f.node.cases[f.loc.idx].condition)
    ELSE IF IsSome(f.node.else_case)
    THEN Visit([f EXCEPT !.pc = "else"], f.node.else_case.expr)
    ELSE Return(Success(null_value))

visit_if_node ==
    /\ Running /\ Top.node.k = "If"
    /\ LET result == Register(Top.result, ret)
           f == [Top EXCEPT !.result = result]
       IN  CASE Top.pc = "start" -> IfNext([Top EXCEPT !.loc = [idx |-> 1]])
             [] Top.pc = "condition" ->
                    IF ShouldReturn(result) THEN Return(result)
                    ELSE IF IsNone(ret.value) THEN Panic
                    ELSE IF is_true(ret.value)
                    THEN Visit([f EXCEPT !.pc = "expr"], Top.node.cases[Top.loc.idx].expr)
                    ELSE IfNext([f EXCEPT !.loc = [idx |-> @.idx + 1]])
             [] Top.pc = "expr" ->
                    IF ShouldReturn(result) THEN Return(result)
                    ELSE Return(Success(IF Top.node.cases[Top.loc.idx].should_return_null
                                        THEN null_value ELSE ret.value))
             [] OTHER ->
                    IF ShouldReturn(result) THEN Return(result)
                    ELSE Return(Success(IF Top.node.else_case.should_return_null
                                        THEN null_value ELSE ret.value))
    /\ Tick /\ UNCHANGED <<tables, contexts, out>>

\* a loop test that includes the end value
ForLoopInclusive(f) ==
    LET i == f.loc.i
    IN  IF \/ f.loc.step_value >= 0 /\ i <= f.loc.end_value
           \/ f.loc.step_value < 0 /\ i >= f.loc.end_value
        THEN /\ tables' = SymbolTableSet(tables, St(f), f.node.var_name, NumberValue(i))
             /\ Visit([f EXCEPT !.pc = "body",
                                !.loc.i = i + f.loc.step_value,
                                !.loc.iters = Append(@, i)],
                      f.node.body_node)
        ELSE /\ Return(Success(null_value))
             /\ UNCHANGED tables

\* a loop that takes its counter from the binding of the loop variable
ForLoopFromBinding(f) ==
    LET bound == /\ f.loc.iters # <<>>
                 /\ Bound(tables, St(f), f.node.var_name)
                 /\ tables[St(f)].symbols[f.node.var_name].t = "number"
        i == IF bound
             THEN tables[St(f)].symbols[f.node.var_name].value + f.loc.step_value
             ELSE f.loc.i
    IN  IF \/ f.loc.step_value >= 0 /\ i < f.loc.end_value
           \/ f.loc.step_value < 0 /\ i > f.loc.end_value
        THEN /\ tables' = SymbolTableSet(tables, St(f), f.node.var_name, NumberValue(i))
             /\ Visit([f EXCEPT !.pc = "body",
                                !.loc.i = i + f.loc.step_value,
                                !.loc.iters = Append(@, i)],
                      f.node.body_node)
        ELSE /\ Return(Success(null_value))
             /\ UNCHANGED tables

\* the test of the while loop of visit_for_node and the start of one
\* iteration.  iters is a history field: the values the loop variable was
\* bound to, in order.
ForLoop(f) ==
    LET i == f.loc.i
    IN  IF \/ f.loc.step_value >= 0 /\ i < f.loc.end_value
           \/ f.loc.step_value < 0 /\ i > f.loc.end_value
        THEN /\ tables' = SymbolTableSet(tables, St(f), f.node.var_name, NumberValue(i))
             /\ Visit([f EXCEPT !.pc = "body",
                                !.loc.i = i + f.loc.step_value,
                                !.loc.iters = Append(@, i)],
                      f.node.body_node)
        ELSE /\ Return(Success(null_value))
             /\ UNCHANGED tables

ForLocals(start_value) ==
    [start_value |-> start_value, end_value |-> 0, step_value |-> 1,
     i |-> start_value, iters |-> <<>>]

visit_for_node ==
    /\ Running /\ Top.node.k = "For"
    /\ LET result == Register(Top.result, ret)
           f == [Top EXCEPT !.result = result]
       IN  CASE Top.pc = "start" ->
                    /\ Visit([Top EXCEPT !.pc = "start_value"], Top.node.start_value_node)
                    /\ UNCHANGED tables
             [] Top.pc = "start_value" ->
                    IF IsNone(ret.value) THEN Panic /\ UNCHANGED tables
                    ELSE IF ret.value.t # "number"
                    THEN Return(Failure(StandardError("expected start value as number", NoneV)))
                         /\ UNCHANGED tables
                    ELSE IF ShouldReturn(result) THEN Return(result) /\ UNCHANGED tables
                    ELSE /\ Visit([f EXCEPT !.pc = "end_value",
                                            !.loc = ForLocals(ret.value.value)],
                                  Top.node.end_value_node)
                         /\ UNCHANGED tables
             [] Top.pc = "end_value" ->
                    IF IsNone(ret.value) THEN Panic /\ UNCHANGED tables
                    ELSE IF ret.value.t # "number"
                    THEN Return(Failure(StandardError("expected end value as number", NoneV)))
                         /\ UNCHANGED tables
                    ELSE IF ShouldReturn(result) THEN Return(result) /\ UNCHANGED tables
                    ELSE IF HasNode(Top.node.step_value_node)
                    THEN /\ Visit([f EXCEPT !.pc = "step_value",
                                            !.loc.end_value = ret.value.value],
                                  Top.node.step_value_node)
                         /\ UNCHANGED tables
                    ELSE ForLoop([f EXCEPT !.loc.end_value = ret.value.value])
             [] Top.pc = "step_value" ->
                    IF IsNone(ret.value) THEN Panic /\ UNCHANGED tables
                    ELSE IF ret.value.t # "number"
                    THEN Return(Failure(StandardError("expected step value as number", NoneV)))
                         /\ UNCHANGED tables
                    ELSE IF ShouldReturn(result) THEN Return(result) /\ UNCHANGED tables
                    ELSE ForLoop([f EXCEPT !.loc.step_value = ret.value.value])
             [] OTHER ->
                    IF /\ ShouldReturn(result)
                       /\ ~result.loop_should_continue
                       /\ ~result.loop_should_break
                    THEN Return(result) /\ UNCHANGED tables
                    ELSE IF result.loop_should_continue THEN ForLoop(f)
                    ELSE IF result.loop_should_break
                    THEN Return(Success(null_value)) /\ UNCHANGED tables
                    ELSE ForLoop(f)
    /\ Tick /\ UNCHANGED <<contexts, out>>

\* a while loop that hands the break signal of its body to its caller
visit_while_node_break_leaks ==
    /\ Running /\ Top.node.k = "While"
    /\ LET result == Register(Top.result, ret)
           f == [Top EXCEPT !.result = result]
       IN  CASE Top.pc = "start" ->
                    Visit([Top EXCEPT !.pc = "condition"], Top.node.condition_node)
             [] Top.pc = "condition" ->
                    IF ShouldReturn(result) THEN Return(result)
                    ELSE IF IsNone(ret.value) THEN Panic
                    ELSE IF ~is_true(ret.value) THEN Return(Success(null_value))
                    ELSE Visit([f EXCEPT !.pc = "body"], Top.node.body_node)
             [] OTHER ->
                    IF ShouldReturn(result) /\ ~result.loop_should_continue
                    THEN Return(result)
                    ELSE Visit([f EXCEPT !.pc = "condition"], Top.node.condition_node)
    /\ Tick /\ UNCHANGED <<tables, contexts, out>>

visit_while_node ==
    /\ Running /\ Top.node.k = "While"
    /\ LET result == Register(Top.result, ret)
           f == [Top EXCEPT !.result = result]
       IN  CASE Top.pc = "start" ->
                    Visit([Top EXCEPT !.pc = "condition"], Top.node.condition_node)
             [] Top.pc = "condition" ->
                    IF ShouldReturn(result) THEN Return(result)
                    ELSE IF IsNone(ret.value) THEN Panic
                    ELSE IF ~is_true(ret.value) THEN Return(Success(null_value))
                    ELSE Visit([f EXCEPT !.pc = "body"], Top.node.body_node)
             [] OTHER ->
                    IF /\ ShouldReturn(result)
                       /\ ~result.loop_should_continue
                       /\ ~result.loop_should_break
                    THEN Return(result)
                    ELSE IF result.loop_should_continue
                    THEN Visit([f EXCEPT !.pc = "condition"], Top.node.condition_node)
                    ELSE IF result.loop_should_break THEN Return(Success(null_value))
                    ELSE Visit([f EXCEPT !.pc = "condition"], Top.node.condition_node)
    /\ Tick /\ UNCHANGED <<tables, contexts, out>>

\* a try that binds the error name in the interpreter's global table
visit_try_except_node_global_bind ==
    /\ Running /\ Top.node.k = "TryExcept"
    /\ LET result == Register(Top.result, ret)
           f == [Top EXCEPT !.result = result]
       IN  CASE Top.pc = "start" ->
                    /\ Visit([Top EXCEPT !.pc = "try"], Top.node.try_body_node)
                    /\ UNCHANGED tables
             [] Top.pc = "try" ->
                    IF IsSome(result.error)
                    THEN /\ tables' = SymbolTableSet(tables, Top.interp, Top.node.error_name,
                                                     StringValue(result.error.text))
                         /\ Visit([f EXCEPT !.pc = "except"], Top.node.except_body_node)
                    ELSE IF ShouldReturn(result) THEN Return(result) /\ UNCHANGED tables
                    ELSE Return(Success(null_value)) /\ UNCHANGED tables
             [] OTHER ->
                    /\ IF IsSome(result.error) THEN Return(result)
                       ELSE IF ShouldReturn(result) THEN Return(result)
                       ELSE Return(Success(null_value))
                    /\ UNCHANGED tables
    /\ Tick /\ UNCHANGED <<contexts, out>>

visit_try_except_node ==
    /\ Running /\ Top.node.k = "TryExcept"
    /\ LET result == Register(Top.result, ret)
           f == [Top EXCEPT !.result = result]
       IN  CASE Top.pc = "start" ->
                    /\ Visit([Top EXCEPT !.pc = "try"], Top.node.try_body_node)
                    /\ UNCHANGED tables
             [] Top.pc = "try" ->
                    IF IsSome(result.error)
                    THEN /\ tables' = SymbolTableSet(tables, St(Top), Top.node.error_name,
                                                     StringValue(result.error.text))
                         /\ Visit([f EXCEPT !.pc = "except"], Top.node.except_body_node)
                    ELSE IF ShouldReturn(result) THEN Return(result) /\ UNCHANGED tables
                    ELSE Return(Success(null_value)) /\ UNCHANGED tables
             [] OTHER ->
                    /\ IF IsSome(result.error) THEN Return(result)
                       ELSE IF ShouldReturn(result) THEN Return(result)
                       ELSE Return(Success(null_value))
                    /\ UNCHANGED tables
    /\ Tick /\ UNCHANGED <<contexts, out>>

visit_function_definition_node ==
    /\ Running /\ Top.node.k = "FunctionDefinition"
    /\ LET func_name == Top.node.var_name
           func_value == FunctionValue(func_name, Top.node.body_node, Top.node.arg_names,
                                       Top.node.should_auto_return, Top.ctx)
       IN  /\ tables' = IF func_name # ""
                        THEN SymbolTableSet(tables, St(Top), func_name, func_value)
                        ELSE tables
           /\ Return(Success(func_value))
    /\ Tick /\ UNCHANGED <<contexts, out>>

\* the loop of visit_call_node over arg_nodes, then the call of execute
CallNext(f) ==
    IF Len(f.loc.args) < Len(f.node.arg_nodes)
    THEN Visit([f EXCEPT !.pc = "arg"], f.node.arg_nodes[Len(f.loc.args) + 1])
    ELSE IF f.loc.value_to_call.t = "function"
    THEN Visit([f EXCEPT !.pc = "execute"],
               [k |-> "FunctionExecute", self |-> f.loc.value_to_call, args |-> f.loc.args])
    ELSE IF f.loc.value_to_call.t = "builtin"
    THEN Visit([f EXCEPT !.pc = "execute"],
               [k |-> "BuiltInFunctionExecute", self |-> f.loc.value_to_call,
                args |-> f.loc.args])
    ELSE Return(Failure(StandardError("expected function as call", NoneV)))

visit_call_node ==
    /\ Running /\ Top.node.k = "Call"
    /\ LET result == Register(Top.result, ret)
           f == [Top EXCEPT !.result = result]
       IN  CASE Top.pc = "start" ->
                    Visit([Top EXCEPT !.pc = "callee"], Top.node.node_to_call)
             [] Top.pc = "callee" ->
                    IF ShouldReturn(result) THEN Return(result)
                    ELSE IF IsNone(ret.value) THEN Panic
                    ELSE CallNext([f EXCEPT !.loc = [value_to_call |-> ret.value,
                                                     args |-> <<>>]])
             [] Top.pc = "arg" ->
                    IF ShouldReturn(result) THEN Return(result)
                    ELSE IF IsNone(ret.value) THEN Panic
                    ELSE CallNext([f EXCEPT !.loc.args = Append(@, ret.value)])
             [] OTHER ->
                    IF ShouldReturn(result) THEN Return(result)
                    ELSE IF IsNone(ret.value) THEN Panic
                    ELSE Return(Success(SetContext(ret.value, Top.ctx)))
    /\ Tick /\ UNCHANGED <<tables, contexts, out>>

\* check_args of Function and of BuiltInFunction (the same code): the
\* RuntimeResult of the arity check
\* an arity check that only rejects surplus arguments
check_args_surplus_only(self, arg_names, args) ==
    IF Len(args) > Len(arg_names)
    THEN Failure(StandardError("invalid function call",
                    Some(ArityHelp(self.name, Len(arg_names), Len(args)))))
    ELSE Success(NoneV)

check_args(self, arg_names, args) ==
    IF Len(args) > Len(arg_names) \/ Len(args) < Len(arg_names)
    THEN Failure(StandardError("invalid function call",
                    Some(ArityHelp(self.name, Len(arg_names), Len(args)))))
    ELSE Success(NoneV)

\* populate_args: binds arg_names[i] to args[i], from i on, in the table of
\* the execution context
RECURSIVE populate_args(_, _, _, _, _, _)
populate_args(tbls, st, arg_names, args, exec_ctx, i) ==
    IF i > Len(args) THEN tbls
    ELSE populate_args(SymbolTableSet(tbls, st, arg_names[i], SetContext(args[i], exec_ctx)),
                       st, arg_names, args, exec_ctx, i + 1)

\* Function::execute.  Interpreter::new allocates a global table, then
\* generate_new_context allocates the execution context and its table,
\* whose parent is the table of the context the function value carries.
\* an execute that ends a leave or next of the body at the call
FunctionExecuteConsumesLoopSignals ==
    /\ Running /\ Top.node.k = "FunctionExecute"
    /\ LET self == Top.node.self
           args == Top.node.args
           interp == Len(tables) + 1
           exec_st == Len(tables) + 2
           exec_ctx == Len(contexts) + 1
           allocated == tables \o <<GlobalSymbolTable,
                                    SymbolTableNew(TableOf(contexts, self.context))>>
           checked == check_args(self, self.arg_names, args)
           result == Register(Top.result, ret)
       IN  IF Top.pc = "start"
           THEN IF self.context = 0 THEN Panic /\ UNCHANGED <<tables, contexts>>
                ELSE /\ contexts' = Append(contexts,
                                           ContextNew(self.name, self.context, exec_st))
                     /\ IF ShouldReturn(checked)
                        THEN /\ tables' = allocated
                             /\ Return(checked)
                        ELSE /\ tables' = populate_args(allocated, exec_st, self.arg_names,
                                                        args, exec_ctx, 1)
                             /\ VisitWith([Top EXCEPT !.pc = "body",
                                                     !.loc = [exec_context |-> exec_ctx]],
                                          self.body_node, exec_ctx, interp)
           ELSE /\ IF IsSome(result.error)
                   THEN Return(result)
                   ELSE Return(Success(
                            Or(Or(IF self.should_auto_return THEN ret.value ELSE NoneV,
                                  result.func_return_value),
                               null_value)))
                /\ UNCHANGED <<tables, contexts>>
    /\ Tick /\ UNCHANGED out

FunctionExecute ==
    /\ Running /\ Top.node.k = "FunctionExecute"
    /\ LET self == Top.node.self
           args == Top.node.args
           interp == Len(tables) + 1
           exec_st == Len(tables) + 2
           exec_ctx == Len(contexts) + 1
           allocated == tables \o <<GlobalSymbolTable,
                                    SymbolTableNew(TableOf(contexts, self.context))>>
           checked == check_args(self, self.arg_names, args)
           result == Register(Top.result, ret)
       IN  IF Top.pc = "start"
           THEN IF self.context = 0 THEN Panic /\ UNCHANGED <<tables, contexts>>
                ELSE /\ contexts' = Append(contexts,
                                           ContextNew(self.name, self.context, exec_st))
                     /\ IF ShouldReturn(checked)
                        THEN /\ tables' = allocated
                             /\ Return(checked)
                        ELSE /\ tables' = populate_args(allocated, exec_st, self.arg_names,
                                                        args, exec_ctx, 1)
                             /\ VisitWith([Top EXCEPT !.pc = "body",
                                                     !.loc = [exec_context |-> exec_ctx]],
                                          self.body_node, exec_ctx, interp)
           ELSE /\ IF ShouldReturn(result) /\ IsNone(result.func_return_value)
                   THEN Return(result)
                   ELSE Return(Success(
                            Or(Or(IF self.should_auto_return THEN ret.value ELSE NoneV,
                                  result.func_return_value),
                               null_value)))
                /\ UNCHANGED <<tables, contexts>>
    /\ Tick /\ UNCHANGED out

\* the names BuiltInFunction::execute dispatches on
ExecuteNames ==
    {"serve", "process", "sweep", "stash", "tostring", "tonumber", "length", "uhoh",
     "type", "run", "_env", "inline", "rest"}

\* the parameter list each execute_* hands to check_and_populate_args
BuiltInParams(name) ==
    CASE name = "serve" -> <<"value">>
      [] name = "process" -> <<"msg">>
      [] name = "sweep" -> <<"file">>
      [] name = "stash" -> <<"file", "contents">>
      [] name = "tostring" -> <<"value">>
      [] name = "tonumber" -> <<"value">>
      [] name = "length" -> <<"value">>
      [] name = "uhoh" -> <<"msg">>
      [] name = "type" -> <<"value">>
      [] name = "run" -> <<"code">>
      [] name = "_env" -> <<"var">>
      [] name = "inline" -> <<"text">>
      [] OTHER -> <<"seconds">>

\* the built-ins whose action after the arity check is part of this model;
\* the others read or write files, the environment or standard input
PureBuiltIns == {"serve", "tostring", "length", "uhoh", "type"}

\* what execute_tostring, execute_length, execute_error, execute_type and
\* execute_print return once the arguments are bound
BuiltInResult(name, args) ==
    CASE name = "tostring" -> Success(StringValue(as_string(args[1])))
      [] name = "length" ->
            IF args[1].t = "string" THEN Success(NumberValue(Len(args[1].value)))
            ELSE IF args[1].t = "list" THEN Success(NumberValue(Len(args[1].elements)))
            ELSE Failure(StandardError("expected type string or list", NoneV))
      [] name = "uhoh" ->
            IF args[1].t = "string" THEN Failure(StandardError(args[1].value, NoneV))
            ELSE Failure(StandardError("expected type string", Some("add an error message")))
      [] name = "type" -> Success(StringValue(object_type(args[1])))
      [] OTHER -> Success(null_value)

\* BuiltInFunction::execute
BuiltInFunctionExecute ==
    /\ Running /\ Top.node.k = "BuiltInFunctionExecute"
    /\ LET self == Top.node.self
           args == Top.node.args
           exec_st == Len(tables) + 1
           exec_ctx == Len(contexts) + 1
           allocated == Append(tables, SymbolTableNew(TableOf(contexts, self.context)))
           arg_names == BuiltInParams(self.name)
           checked == check_args(self, arg_names, args)
       IN  /\ ~ShouldReturn(checked) => self.name \in PureBuiltIns
           /\ IF self.context = 0 THEN Panic /\ UNCHANGED <<tables, contexts, out>>
              ELSE /\ contexts' = Append(contexts,
                                         ContextNew(self.name, self.context, exec_st))
                   /\ IF ShouldReturn(checked)
                      THEN /\ tables' = allocated
                           /\ Return(checked)
                           /\ UNCHANGED out
                      ELSE IF Len(args) < 1
                      THEN \* args[0] is out of bounds
                           /\ tables' = allocated
                           /\ Panic
                           /\ UNCHANGED out
                      ELSE /\ tables' = populate_args(allocated, exec_st, arg_names,
                                                      args, exec_ctx, 1)
                           /\ out' = IF self.name = "serve"
                                     THEN Append(out, as_string(args[1]))
                                     ELSE out
                           /\ Return(BuiltInResult(self.name, args))
    /\ Tick

visit_binary_operator_node ==
    /\ Running /\ Top.node.k = "BinaryOperator"
    /\ LET result == Register(Top.result, ret)
           f == [Top EXCEPT !.result = result]
       IN  CASE Top.pc = "start" ->
                    Visit([Top EXCEPT !.pc = "left"], Top.node.left_node)
             [] Top.pc = "left" ->
                    IF ShouldReturn(result) THEN Return(result)
                    ELSE IF IsNone(ret.value) THEN Panic
                    ELSE Visit([f EXCEPT !.pc = "right", !.loc = [left |-> ret.value]],
                               Top.node.right_node)
             [] OTHER ->
                    IF ShouldReturn(result) THEN Return(result)
                    ELSE IF IsNone(ret.value) THEN Panic
                    ELSE LET operation_result ==
                                 PerformOperation(Top.loc.left, Top.node.op, ret.value)
                         IN  IF IsErr(operation_result)
                             THEN Return(Failure(operation_result))
                             ELSE Return(Success(operation_result))
    /\ Tick /\ UNCHANGED <<tables, contexts, out>>

visit_unary_operator_node ==
    /\ Running /\ Top.node.k = "UnaryOperator"
    /\ LET result == Register(Top.result, ret)
       IN  IF Top.pc = "start"
           THEN Visit([Top EXCEPT !.pc = "value"], Top.node.node)
           ELSE IF ShouldReturn(result) THEN Return(result)
           ELSE IF IsNone(ret.value) THEN Panic
           ELSE LET operation_result ==
                        CASE Top.node.op = "-" ->
                                PerformOperation(ret.value, "*", NumberValue(-1))
                          [] Top.node.op = "not" ->
                                PerformOperation(ret.value, "not", false_value)
                          [] OTHER -> StandardError("unsupported unary operation", NoneV)
                IN  IF IsErr(operation_result)
                    THEN Return(Failure(operation_result))
                    ELSE Return(Success(operation_result))
    /\ Tick /\ UNCHANGED <<tables, contexts, out>>

visit_return_node ==
    /\ Running /\ Top.node.k = "Return"
    /\ LET result == Register(Top.result, ret)
       IN  IF Top.pc = "start"
           THEN IF HasNode(Top.node.node_to_return)
                THEN Visit([Top EXCEPT !.pc = "value"], Top.node.node_to_return)
                ELSE Return(SuccessReturn(null_value))
           ELSE IF ShouldReturn(result) THEN Return(result)
           ELSE IF IsNone(ret.value) THEN Panic
           ELSE Return(SuccessReturn(ret.value))
    /\ Tick /\ UNCHANGED <<tables, contexts, out>>

visit_continue_node ==
    /\ Running /\ Top.node.k = "Continue"
    /\ Return(SuccessContinue)
    /\ Tick /\ UNCHANGED <<tables, contexts, out>>

visit_break_node ==
    /\ Running /\ Top.node.k = "Break"
    /\ Return(SuccessBreak)
    /\ Tick /\ UNCHANGED <<tables, contexts, out>>

(***************************************************************************)
(* Programs.  The nodes are built as the parser builds them: a braced body *)
(* is the List node of its statements, an if case discards the value of    *)
(* its body (should_return_null), a function never auto-returns.           *)
(***************************************************************************)
Num(n) == NumberNode(n)
Str(s) == StringNode(s)
Var(name) == VariableAccessNode(name)
Obj(name, value) == VariableAssignNode(name, value)
Stay(name, value) == ConstAssignNode(name, value)
Block(statements) == ListNode(statements)
Func(name, arg_names, statements) ==
    FunctionDefinitionNode(name, arg_names, Block(statements), FALSE)
Call(name, arg_nodes) == CallNode(Var(name), arg_nodes)
Serve(node) == Call("serve", <<node>>)
Uhoh(msg) == Call("uhoh", <<Str(msg)>>)
IfThen(condition, statements) ==
    IfNode(<<IfCase(condition, Block(statements), TRUE)>>, NoneV)
Bin(left, op, right) == BinaryOperatorNode(left, op, right)
Give(node) == ReturnNode(node)
Walk(name, start, end, step, body) == ForNode(name, start, end, step, body)
Unsafe(try_statements, error_name, except_statements) ==
    TryExceptNode(Block(try_statements), Block(except_statements), error_name)

Lits == 0..MaxNum

(***************************************************************************)
(* The host file system seen by std::fs.  Two spellings name the file      *)
(* behind "a.maid"; inode 0 is no file.                                    *)
(***************************************************************************)
Fetch(filename, path) == ImportNode(Str(path), filename)

Paths ==
    {"a.maid", "./a.maid", "m.maid", "n.maid", "nest.maid", "err.maid", "bad.maid",
     "notes.txt", "gone.maid", "gone", "locked/m.maid", "main.maid"}

Inode(path) ==
    CASE path \in {"a.maid", "./a.maid"} -> 1
      [] path = "m.maid" -> 2
      [] path = "n.maid" -> 3
      [] path = "nest.maid" -> 4
      [] path = "err.maid" -> 5
      [] path = "bad.maid" -> 6
      [] path = "notes.txt" -> 7
      [] path = "main.maid" -> 8
      [] OTHER -> 0

\* fs::exists: Ok(true), Ok(false), or Err when the path cannot be examined
FsExists(path) ==
    IF path = "locked/m.maid" THEN "Err"
    ELSE IF Inode(path) # 0 THEN "Ok(true)" ELSE "Ok(false)"

\* fs::read_to_string: the text of the file, or NoneV for Err
FsReadToString(path) ==
    CASE Inode(path) = 1 -> Some("serve(1)\nfetch \"a.maid\"")
      [] Inode(path) = 2 -> Some("obj x = 1\nobj y = 1")
      [] Inode(path) = 3 -> Some("obj x = 2")
      [] Inode(path) = 4 -> Some("fetch \"m.maid\";\nobj z = 3")
      [] Inode(path) = 5 -> Some("obj x = 5\nuhoh(\"boom\")")
      [] Inode(path) = 6 -> Some("obj = 1")
      [] Inode(path) = 7 -> Some("notes")
      [] OTHER -> NoneV

EndsWith(s, suffix) ==
    Len(s) >= Len(suffix) /\ SubSeq(s, Len(s) - Len(suffix) + 1, Len(s)) = suffix

\* Lexer::make_tokens and Parser::parse on the texts of the files and of the
\* strings handed to run: the root node, or the diagnostic
ParseSuccess(node) == [node |-> node, error |-> NoneV]
ParseFailure(error) == [node |-> NoNode, error |-> error]

Parse(filename, text) ==
    CASE text = "serve(1)\nfetch \"a.maid\"" ->
            ParseSuccess(Block(<<Serve(Num(1)), Fetch(filename, "a.maid")>>))
      [] text = "obj x = 1\nobj y = 1" ->
            ParseSuccess(Block(<<Obj("x", Num(1)), Obj("y", Num(1))>>))
      [] text = "obj x = 2" ->
            ParseSuccess(Block(<<Obj("x", Num(2))>>))
      [] text = "fetch \"m.maid\";\nobj z = 3" ->
            ParseSuccess(Block(<<Fetch(filename, "m.maid"), Obj("z", Num(3))>>))
      [] text = "obj x = 5\nuhoh(\"boom\")" ->
            ParseSuccess(Block(<<Obj("x", Num(5)), Uhoh("boom")>>))
      [] text = "serve(x)" ->
            ParseSuccess(Block(<<Serve(Var("x"))>>))
      [] text = "func h() { obj x = 3 }\nh()" ->
            ParseSuccess(Block(<<Func("h", <<>>, <<Obj("x", Num(3))>>), Call("h", <<>>)>>))
      [] text = "notes" ->
            ParseSuccess(Block(<<Var("notes")>>))
      [] OTHER -> ParseFailure(StandardError("expected identifier",
                                             Some("add a name for this object like 'hotdog'")))

\* the file that holds the programs which are not read from the file system
MainFile == "main.maid"

\* the copy loop of visit_import_node: set of every symbol, in any order
RECURSIVE SetSymbols(_, _, _, _)
SetSymbols(tbls, st, symbols, names) ==
    IF names = {} THEN tbls
    ELSE LET name == CHOOSE n \in names : TRUE
         IN  SetSymbols(SymbolTableSet(tbls, st, name, symbols[name]), st, symbols,
                        names \ {name})

\* an import that keeps the bindings the importing scope already has
visit_import_node_keep_existing ==
    /\ Running /\ Top.node.k = "Import"
    /\ LET result == Register(Top.result, ret)
           file_to_import == ret.value.value
           contents == FsReadToString(file_to_import)
           ast == Parse(file_to_import, contents.value)
           interpreter == Len(tables) + 1
           module_context == Len(contexts) + 1
           symbols == tables[Top.interp].symbols
       IN  CASE Top.pc = "start" ->
                    /\ Visit([Top EXCEPT !.pc = "path"], Top.node.node_to_import)
                    /\ UNCHANGED <<tables, contexts>>
             [] Top.pc = "path" ->
                    IF ShouldReturn(result)
                    THEN Return(result) /\ UNCHANGED <<tables, contexts>>
                    ELSE IF IsNone(ret.value)
                    THEN Panic /\ UNCHANGED <<tables, contexts>>
                    ELSE IF ret.value.t # "string"
                    THEN /\ Return(Failure(StandardError("expected type string",
                                Some("add the '.maid' file you would like to import"))))
                         /\ UNCHANGED <<tables, contexts>>
                    ELSE IF FsExists(file_to_import) = "Err"
                            \/ ~EndsWith(file_to_import, ".maid")
                    THEN /\ Return(Failure(StandardError("file doesn't exist or isn't valid",
                                Some("add the '.maid' file you would like to import"))))
                         /\ UNCHANGED <<tables, contexts>>
                    ELSE IF file_to_import = Top.node.filename
                    THEN /\ Return(Failure(StandardError("circular import", NoneV)))
                         /\ UNCHANGED <<tables, contexts>>
                    ELSE IF IsNone(contents)
                    THEN /\ Return(Failure(StandardError(
                                "file contents couldn't be read properly on " \o file_to_import,
                                Some("add a UTF-8 encoded '.maid' file you would like to import"))))
                         /\ UNCHANGED <<tables, contexts>>
                    ELSE IF IsSome(ast.error)
                    THEN Return(Failure(ast.error)) /\ UNCHANGED <<tables, contexts>>
                    ELSE /\ tables' = Append(tables, GlobalSymbolTable)
                         /\ contexts' = Append(contexts,
                                               ContextNew("<module>", 0, Top.interp))
                         /\ VisitWith([Top EXCEPT !.pc = "module", !.result = result,
                                                !.loc = [module_context |-> module_context]],
                                      ast.node, module_context, interpreter)
             [] OTHER ->
                    IF IsSome(ret.error)
                    THEN Return(Failure(ret.error)) /\ UNCHANGED <<tables, contexts>>
                    ELSE /\ tables' = SetSymbols(tables, St(Top), symbols,
                                          {n \in DOMAIN symbols : ~Bound(tables, St(Top), n)})
                         /\ Return(Success(null_value))
                         /\ UNCHANGED contexts
    /\ Tick /\ UNCHANGED out

visit_import_node ==
    /\ Running /\ Top.node.k = "Import"
    /\ LET result == Register(Top.result, ret)
           file_to_import == ret.value.value
           contents == FsReadToString(file_to_import)
           ast == Parse(file_to_import, contents.value)
           interpreter == Len(tables) + 1
           module_context == Len(contexts) + 1
           symbols == tables[Top.interp].symbols
       IN  CASE Top.pc = "start" ->
                    /\ Visit([Top EXCEPT !.pc = "path"], Top.node.node_to_import)
                    /\ UNCHANGED <<tables, contexts>>
             [] Top.pc = "path" ->
                    IF ShouldReturn(result)
                    THEN Return(result) /\ UNCHANGED <<tables, contexts>>
                    ELSE IF IsNone(ret.value)
                    THEN Panic /\ UNCHANGED <<tables, contexts>>
                    ELSE IF ret.value.t # "string"
                    THEN /\ Return(Failure(StandardError("expected type string",
                                Some("add the '.maid' file you would like to import"))))
                         /\ UNCHANGED <<tables, contexts>>
                    ELSE IF FsExists(file_to_import) = "Err"
                            \/ ~EndsWith(file_to_import, ".maid")
                    THEN /\ Return(Failure(StandardError("file doesn't exist or isn't valid",
                                Some("add the '.maid' file you would like to import"))))
                         /\ UNCHANGED <<tables, contexts>>
                    ELSE IF file_to_import = Top.node.filename
                    THEN /\ Return(Failure(StandardError("circular import", NoneV)))
                         /\ UNCHANGED <<tables, contexts>>
                    ELSE IF IsNone(contents)
                    THEN /\ Return(Failure(StandardError(
                                "file contents couldn't be read properly on " \o file_to_import,
                                Some("add a UTF-8 encoded '.maid' file you would like to import"))))
                         /\ UNCHANGED <<tables, contexts>>
                    ELSE IF IsSome(ast.error)
                    THEN Return(Failure(ast.error)) /\ UNCHANGED <<tables, contexts>>
                    ELSE /\ tables' = Append(tables, GlobalSymbolTable)
                         /\ contexts' = Append(contexts,
                                               ContextNew("<module>", 0, Top.interp))
                         /\ VisitWith([Top EXCEPT !.pc = "module", !.result = result,
                                                !.loc = [module_context |-> module_context]],
                                      ast.node, module_context, interpreter)
             [] OTHER ->
                    IF IsSome(ret.error)
                    THEN Return(Failure(ret.error)) /\ UNCHANGED <<tables, contexts>>
                    ELSE /\ tables' = SetSymbols(tables, St(Top), symbols, DOMAIN symbols)
                         /\ Return(Success(null_value))
                         /\ UNCHANGED contexts
    /\ Tick /\ UNCHANGED out

\* a run that evaluates the text on the global table of the calling interpreter
execute_exec_shared_root ==
    /\ Running /\ Top.node.k = "BuiltInFunctionExecute" /\ Top.node.self.name = "run"
    /\ LET self == Top.node.self
           args == Top.node.args
           exec_st == Len(tables) + 1
           exec_ctx == Len(contexts) + 1
           allocated == Append(tables, SymbolTableNew(TableOf(contexts, self.context)))
           populated == populate_args(allocated, exec_st, <<"code">>, args, exec_ctx, 1)
           code_arg == args[1]
           ast == Parse(MainFile, code_arg.value)
           interpreter == Len(tables) + 2
           external_context == Len(contexts) + 2
       IN  /\ ~ShouldReturn(check_args(self, <<"code">>, args))
           /\ IF Top.pc = "start"
              THEN IF self.context = 0 THEN Panic /\ UNCHANGED <<tables, contexts>>
                   ELSE IF code_arg.t # "string"
                   THEN /\ tables' = populated
                        /\ contexts' = Append(contexts,
                                              ContextNew(self.name, self.context, exec_st))
                        /\ Return(Failure(StandardError("expected type string",
                               Some("add the maid code you would like to execute"))))
                   ELSE IF IsSome(ast.error)
                   THEN /\ tables' = populated
                        /\ contexts' = Append(contexts,
                                              ContextNew(self.name, self.context, exec_st))
                        /\ Return(Failure(ast.error))
                   ELSE /\ tables' = populated
                        /\ contexts' = contexts \o
                                <<ContextNew(self.name, self.context, exec_st),
                                  ContextNew("<exec>", 0, Top.interp)>>
                        /\ VisitWith([Top EXCEPT !.pc = "exec",
                                                !.loc = [tables_before |-> Len(tables),
                                                         contexts_before |-> Len(contexts)]],
                                     ast.node, external_context, Top.interp)
              ELSE /\ IF IsSome(ret.error) THEN Return(Failure(ret.error))
                      ELSE Return(Success(null_value))
                   /\ UNCHANGED <<tables, contexts>>
    /\ Tick /\ UNCHANGED out

\* BuiltInFunction::execute for run, then execute_exec; tables_before and
\* contexts_before record what existed when the call was made
execute_exec ==
    /\ Running /\ Top.node.k = "BuiltInFunctionExecute" /\ Top.node.self.name = "run"
    /\ LET self == Top.node.self
           args == Top.node.args
           exec_st == Len(tables) + 1
           exec_ctx == Len(contexts) + 1
           allocated == Append(tables, SymbolTableNew(TableOf(contexts, self.context)))
           populated == populate_args(allocated, exec_st, <<"code">>, args, exec_ctx, 1)
           code_arg == args[1]
           ast == Parse(MainFile, code_arg.value)
           interpreter == Len(tables) + 2
           external_context == Len(contexts) + 2
       IN  /\ ~ShouldReturn(check_args(self, <<"code">>, args))
           /\ IF Top.pc = "start"
              THEN IF self.context = 0 THEN Panic /\ UNCHANGED <<tables, contexts>>
                   ELSE IF code_arg.t # "string"
                   THEN /\ tables' = populated
                        /\ contexts' = Append(contexts,
                                              ContextNew(self.name, self.context, exec_st))
                        /\ Return(Failure(StandardError("expected type string",
                               Some("add the maid code you would like to execute"))))
                   ELSE IF IsSome(ast.error)
                   THEN /\ tables' = populated
                        /\ contexts' = Append(contexts,
                                              ContextNew(self.name, self.context, exec_st))
                        /\ Return(Failure(ast.error))
                   ELSE /\ tables' = Append(populated, GlobalSymbolTable)
                        /\ contexts' = contexts \o
                                <<ContextNew(self.name, self.context, exec_st),
                                  ContextNew("<exec>", 0, interpreter)>>
                        /\ VisitWith([Top EXCEPT !.pc = "exec",
                                                !.loc = [tables_before |-> Len(tables),
                                                         contexts_before |-> Len(contexts)]],
                                     ast.node, external_context, interpreter)
              ELSE /\ IF IsSome(ret.error) THEN Return(Failure(ret.error))
                      ELSE Return(Success(null_value))
                   /\ UNCHANGED <<tables, contexts>>
    /\ Tick /\ UNCHANGED out

\* a function value called outside the scope that defined it
ClosurePrograms ==
    {Block(<<Func("mk", <<>>, <<Obj("x", Num(a)),
                                Func("inner", <<>>, <<Give(Var("x"))>>),
                                Obj("x", Num(b)),
                                Give(Var("inner"))>>),
             Obj("h", Call("mk", <<>>)),
             Serve(Call("h", <<>>))>>) : a \in Lits, b \in Lits}
    \cup
    {Block(<<Obj("y", Num(a)),
             Func("f", <<>>, <<Give(Var("y"))>>),
             Func("g", <<>>, <<Obj("y", Num(b)), Give(Call("f", <<>>))>>),
             Serve(Call("g", <<>>))>>) : a \in Lits, b \in Lits}
    \cup
    {Block(<<Func("f", <<>>, <<Give(Var("z"))>>),
             Func("apply", <<"fn">>, <<Obj("z", Num(a)), Give(Call("fn", <<>>))>>),
             Serve(Call("apply", <<Var("f")>>))>>) : a \in Lits}
    \cup
    {Block(<<Obj("x", Num(a)),
             Func("f", <<>>, <<Give(Var("x"))>>),
             Obj("x", Num(b)),
             Serve(Call("f", <<>>))>>) : a \in Lits, b \in Lits}

\* stay and obj against bindings of the current and of an ancestor scope
BindNodes(name, n) == {Obj(name, Num(n)), Stay(name, Num(n))}

AssignPrograms ==
    {Block(<<first, second, Serve(Var("x"))>>) :
        first \in BindNodes("x", 0), second \in BindNodes("x", 1)}
    \cup
    {Block(<<first,
             Func("f", <<>>, <<second, Give(Var("x"))>>),
             Serve(Call("f", <<>>)),
             Serve(Var("x"))>>) :
        first \in BindNodes("x", 0) \cup BindNodes("y", 0), second \in BindNodes("x", 1)}
    \cup
    {Block(<<Func("f", <<"x">>, <<second, Give(Var("x"))>>),
             Serve(Call("f", <<Num(0)>>))>>) : second \in BindNodes("x", 1)}
    \cup
    {Block(<<Func("f", <<>>, <<second, Give(Num(0))>>),
             Serve(Call("f", <<>>))>>) : second \in BindNodes("serve", 1)}
    \cup
    {Block(<<Obj("_", Num(a)), Serve(Var("_"))>>) : a \in Lits}
    \cup
    {Block(<<Func("f", <<>>, <<Obj("_", Num(a)), Give(Num(a))>>),
             Serve(Call("f", <<>>))>>) : a \in Lits}

\* an error raised in a block, a loop, a call chain, an except body
ErrorNodes == {Uhoh("boom"), Var("zz"), Bin(Num(1), "+", Str("a"))}

ErrorPrograms ==
    {Block(<<Serve(Str("a")), bad, Serve(Str("b"))>>) : bad \in ErrorNodes}
    \cup
    {Block(<<Walk("i", Num(0), Num(MaxNum), NoNode, Block(<<Serve(Var("i")), bad>>)),
             Serve(Str("after"))>>) : bad \in ErrorNodes}
    \cup
    {Block(<<Func("f", <<>>, <<bad, Serve(Str("f"))>>),
             Func("g", <<>>, <<Call("f", <<>>), Serve(Str("g"))>>),
             Call("g", <<>>),
             Serve(Str("after"))>>) : bad \in ErrorNodes}
    \cup
    {Block(<<Obj("n", Num(0)),
             WhileNode(Bin(Var("n"), "<", Num(MaxNum)),
                       Block(<<Obj("n", Bin(Var("n"), "+", Num(1))),
                               IfThen(Bin(Var("n"), "==", Num(c)), <<bad>>),
                               Serve(Var("n"))>>)),
             Serve(Str("after"))>>) : bad \in ErrorNodes, c \in 1..MaxNum}
    \cup
    {Block(<<Unsafe(<<Uhoh("a")>>, "e", <<bad, Serve(Str("no"))>>),
             Serve(Str("after"))>>) : bad \in ErrorNodes}
    \cup
    {Block(<<Func("f", <<>>, <<bad>>),
             Walk("i", Call("f", <<>>), Num(1), NoNode, Serve(Var("i"))),
             Serve(Str("after"))>>) : bad \in ErrorNodes}

\* unsafe / safe
TryPrograms ==
    {Block(<<Unsafe(<<Serve(Str("t")), tried, Serve(Str("t2"))>>, "e",
                    <<Serve(Var("e"))>>),
             Serve(Str("after"))>>) :
        tried \in ErrorNodes \cup {Uhoh(""), Num(1), Call("serve", <<>>)}}
    \cup
    {Block(<<Func("f", <<>>, <<Unsafe(<<tried>>, "e", <<Give(Var("e"))>>),
                               Give(Str("none"))>>),
             Serve(Call("f", <<>>))>>) : tried \in {Uhoh("boom"), Num(1), Give(Num(2))}}
    \cup
    {Block(<<Walk("i", Num(0), Num(MaxNum), NoNode,
                  Block(<<Unsafe(<<tried>>, "e", <<Serve(Var("e")), ctl>>),
                          Serve(Var("i"))>>)),
             Serve(Str("after"))>>) :
        tried \in {Uhoh("boom"), ContinueNode, BreakNode, Num(1)},
        ctl \in {ContinueNode, BreakNode, Num(1)}}

\* calls with every small argument list
ArgNodes == {Num(1), Str("s"), Block(<<>>)}
ArgLists == {<<>>} \cup {<<a>> : a \in ArgNodes} \cup {<<a, b>> : a \in ArgNodes, b \in ArgNodes}
ParamLists == {<<>>, <<"p">>, <<"p", "q">>}

ArityPrograms ==
    {Block(<<Func("f", params, <<Serve(Str("body")), Give(Num(1))>>),
             Serve(Call("f", args))>>) : params \in ParamLists, args \in ArgLists}
    \cup
    {Block(<<Call(name, args), Serve(Str("after"))>>) :
        name \in {"serve", "tostring", "length", "type", "uhoh"}, args \in ArgLists}
    \cup
    UNION {{Block(<<Call(name, args), Serve(Str("after"))>>) :
                args \in {a \in ArgLists : Len(a) # Len(BuiltInParams(name))}} :
           name \in {"stash", "run", "process"}}

\* counted loops
StepNodes == {NoNode, Num(0), Num(1), Num(2), UnaryOperatorNode("-", Num(1))}

ForPrograms ==
    {Block(<<Walk("i", Num(s), Num(e), step, body), Serve(Str("end"))>>) :
        s \in Lits, e \in 0..(MaxNum + 1), step \in StepNodes,
        body \in {Serve(Var("i")),
                  Block(<<Obj("i", Bin(Var("i"), "+", Num(5))), Serve(Var("i"))>>)}}

\* next and leave
LoopControlPrograms ==
    {Block(<<Walk("i", Num(0), Num(MaxNum + 1), NoNode,
                  Block(<<IfThen(Bin(Var("i"), "==", Num(c)), <<ctl>>), Serve(Var("i"))>>)),
             Serve(Str("end"))>>) : c \in Lits, ctl \in {ContinueNode, BreakNode}}
    \cup
    {Block(<<Walk("i", Num(0), Num(2), NoNode,
                  Block(<<Walk("j", Num(0), Num(2), NoNode,
                               Block(<<IfThen(Bin(Var("j"), "==", Num(c)), <<ctl>>),
                                       Serve(Var("j"))>>)),
                          Serve(Str("outer"))>>)),
             Serve(Str("end"))>>) : c \in 0..1, ctl \in {ContinueNode, BreakNode}}
    \cup
    {Block(<<Obj("n", Num(0)),
             WhileNode(Bin(Var("n"), "<", Num(MaxNum + 1)),
                       Block(<<Obj("n", Bin(Var("n"), "+", Num(1))),
                               IfThen(Bin(Var("n"), "==", Num(c)), <<ctl>>),
                               Serve(Var("n"))>>)),
             Serve(Str("end"))>>) : c \in 1..MaxNum, ctl \in {ContinueNode, BreakNode}}
    \cup
    {Block(<<Walk("i", Num(0), Num(2), NoNode,
                  Block(<<Obj("n", Num(0)),
                          WhileNode(Bin(Var("n"), "<", Num(2)),
                                    Block(<<Obj("n", Bin(Var("n"), "+", Num(1))), ctl>>)),
                          Serve(Var("i"))>>)),
             Serve(Str("end"))>>) : ctl \in {ContinueNode, BreakNode}}

\* give
ReturnPrograms ==
    {Block(<<Func("f", <<>>, <<Serve(Str("a")), given, Serve(Str("b")), Give(Num(2))>>),
             Serve(Call("f", <<>>))>>) :
        given \in {Give(Num(1)), Give(Str("s")), Give(NoNode), Num(1), BreakNode,
                   IfThen(Num(1), <<Give(Num(1))>>), IfThen(Num(0), <<Give(Num(1))>>)}}
    \cup
    {Block(<<Func("f", <<>>, <<Serve(Str("a")), last>>),
             Serve(Call("f", <<>>))>>) : last \in {Num(1), Give(NoNode), Obj("x", Num(1))}}
    \cup
    {Block(<<Func("f", <<>>,
                  <<Walk("i", Num(0), Num(MaxNum + 1), NoNode,
                         Block(<<IfThen(Bin(Var("i"), "==", Num(c)), <<Give(Var("i"))>>),
                                 Serve(Var("i"))>>)),
                    Serve(Str("end"))>>),
             Serve(Call("f", <<>>))>>) : c \in 0..(MaxNum + 1)}
    \cup
    {Block(<<Func("g", <<>>, <<Give(Num(a))>>),
             Func("f", <<>>, <<Obj("r", Call("g", <<>>)), Serve(Var("r")),
                               Give(Bin(Var("r"), "+", Num(1)))>>),
             Serve(Call("f", <<>>))>>) : a \in Lits}
    \cup
    {Block(<<Serve(Str("a")), Give(Num(1)), Serve(Str("b"))>>)}

\* if / alsoif / otherwise over numbers, strings and lists
CondNodes == {Num(0), Num(1), Str(""), Str("a"), ListNode(<<>>), ListNode(<<Num(0)>>)}
ElseCases == {NoneV, ElseCase(Block(<<Serve(Str("else"))>>), TRUE)}

IfPrograms ==
    {Block(<<IfNode(<<IfCase(c1, Block(<<Serve(Str("first"))>>), TRUE),
                      IfCase(c2, Block(<<Serve(Str("second"))>>), TRUE)>>, else_case),
             Serve(Str("end"))>>) :
        c1 \in CondNodes, c2 \in CondNodes, else_case \in ElseCases}
    \cup
    {Block(<<Obj("r", IfNode(<<IfCase(c1, Block(<<Num(1)>>), TRUE)>>, NoneV)),
             Serve(Var("r"))>>) : c1 \in CondNodes}

\* a call of each built-in of BuiltInFunction::execute with no argument
BuiltInCallPrograms ==
    {Block(<<Call(name, <<>>), Serve(Str("after"))>>) : name \in ExecuteNames}

\* list literals compared with == and !=
NumLists ==
    {<<>>} \cup {<<Num(a)>> : a \in 0..1} \cup {<<Num(a), Num(b)>> : a \in 0..1, b \in 0..1}

ListComparePrograms ==
    {Block(<<Serve(Bin(ListNode(a), op, ListNode(b)))>>) :
        a \in NumLists, b \in NumLists, op \in {"==", "!="}}

\* the file the run starts from is main.maid, or the self-importing file
\* under either of its names
ImportPaths == Paths \ {"main.maid"}

ImportPrograms ==
    {Block(<<Fetch(MainFile, p)>>) : p \in ImportPaths}
    \cup {Parse(p, FsReadToString(p).value).node : p \in {"a.maid", "./a.maid"}}
    \cup {Block(<<ImportNode(Num(1), MainFile)>>),
          Block(<<ImportNode(Var("zz"), MainFile)>>)}
    \cup {Block(<<Unsafe(<<Fetch(MainFile, p)>>, "e", <<Serve(Var("e"))>>)>>) :
            p \in {"gone.maid", "gone", "notes.txt", "locked/m.maid", "bad.maid",
                   "err.maid"}}
    \cup {Block(<<Obj("x", Num(a)), Fetch(MainFile, p), Fetch(MainFile, q), Serve(Var("x"))>>) :
            a \in Lits, p \in {"m.maid", "n.maid", "nest.maid"},
            q \in {"m.maid", "n.maid", "nest.maid"}}
    \cup {Block(<<Func("g", <<>>, <<Obj("x", Num(a)), Fetch(MainFile, p), Fetch(MainFile, q),
                                   Give(Var("x"))>>),
                  Serve(Call("g", <<>>))>>) :
            a \in Lits, p \in {"m.maid", "n.maid"}, q \in {"m.maid", "n.maid", "nest.maid"}}

RunTexts == {"obj x = 2", "serve(x)", "func h() { obj x = 3 }\nh()", "obj = 1",
             "obj x = 5\nuhoh(\"boom\")", "fetch \"m.maid\";\nobj z = 3"}

RunPrograms ==
    {Block(<<Obj("x", Num(a)), Call("run", <<Str(t)>>), Serve(Var("x"))>>) :
        a \in Lits, t \in RunTexts}
    \cup {Block(<<Call("run", <<Str(t)>>), Serve(Var("x"))>>) : t \in RunTexts}
    \cup {Block(<<Call("run", <<Num(1)>>)>>)}
    \cup {Block(<<Func("g", <<>>, <<Obj("x", Num(a)), Call("run", <<Str(t)>>),
                                   Give(Var("x"))>>),
                  Serve(Call("g", <<>>))>>) : a \in Lits, t \in RunTexts}

\* an error in the start, the end or the step of a counted loop
ForHeaderPrograms ==
    {Block(<<Walk("i", start, Num(1), NoNode, Serve(Var("i"))), Serve(Str("after"))>>) :
        start \in ErrorNodes}
    \cup
    {Block(<<Walk("i", Num(0), end, NoNode, Serve(Var("i"))), Serve(Str("after"))>>) :
        end \in ErrorNodes}
    \cup
    {Block(<<Walk("i", Num(0), Num(1), step, Serve(Var("i"))), Serve(Str("after"))>>) :
        step \in ErrorNodes}

\* leave and next in the body of a function that a loop body calls
CallControlProgram(ctl, in_if) ==
    Block(<<Func("f", <<>>,
                 <<Serve(Str("f")),
                   IF in_if THEN IfThen(Num(1), <<ctl>>) ELSE ctl,
                   Serve(Str("no"))>>),
            Walk("i", Num(0), Num(2), NoNode,
                 Block(<<Serve(Var("i")), Call("f", <<>>), Serve(Str("after"))>>)),
            Serve(Str("end"))>>)

CallControlPrograms ==
    {CallControlProgram(ctl, in_if) : ctl \in {ContinueNode, BreakNode}, in_if \in BOOLEAN}
    \cup
    {Block(<<Func("f", <<>>, <<ctl>>), Serve(Call("f", <<>>)), Serve(Str("end"))>>) :
        ctl \in {ContinueNode, BreakNode}}

Programs ==
    ClosurePrograms \cup AssignPrograms \cup ErrorPrograms \cup TryPrograms
    \cup ArityPrograms \cup ForPrograms \cup LoopControlPrograms \cup ReturnPrograms
    \cup IfPrograms \cup BuiltInCallPrograms \cup ListComparePrograms
    \cup ImportPrograms \cup RunPrograms \cup ForHeaderPrograms \cup CallControlPrograms

(***************************************************************************)
(* run() of src/src/lib.rs: a new interpreter, the "<program>" context on  *)
(* its global table, then visit of the root node.  The standard library    *)
(* that run() imports first is not part of the sources; it is taken to     *)
(* bind no name.                                                           *)
(***************************************************************************)
Init ==
    /\ prog \in Programs
    /\ tables = <<GlobalSymbolTable>>
    /\ contexts = <<ContextNew("<program>", 0, 1)>>
    /\ stack = <<NewFrame(prog, 1, 1)>>
    /\ ret = NoRet
    /\ status = "running"
    /\ out = <<>>
    /\ steps = 0

Next ==
    \/ visit_number_node
    \/ visit_string_node
    \/ visit_list_node
    \/ visit_variable_assign_node
    \/ visit_const_assign_node
    \/ visit_variable_access_node
    \/ visit_if_node
    \/ visit_for_node
    \/ visit_while_node
    \/ visit_try_except_node
    \/ visit_function_definition_node
    \/ visit_call_node
    \/ FunctionExecute
    \/ BuiltInFunctionExecute
    \/ visit_binary_operator_node
    \/ visit_unary_operator_node
    \/ visit_return_node
    \/ visit_continue_node
    \/ visit_break_node
    \/ visit_import_node
    \/ execute_exec

Spec == Init /\ [][Next]_vars

(***************************************************************************)
(* Properties.                                                             *)
(***************************************************************************)
Popped == Len(stack') = Len(stack) - 1 /\ stack' = SubSeq(stack, 1, Len(stack) - 1)
Pushed == Len(stack') = Len(stack) + 1
Returned == ret # NoRet

\* the frame of the call whose body the frame at position n belongs to, or 0
RECURSIVE CallFrameOf(_)
CallFrameOf(n) ==
    IF n = 0 THEN 0
    ELSE IF stack[n].node.k = "FunctionExecute" /\ stack[n].pc = "body" THEN n
    ELSE CallFrameOf(n - 1)

\* C1: the environment created by a call of a user function has for parent
\* the environment in which the function was defined, not the environment
\* of the caller.
C1_ParentIsDefiningEnvironment ==
    \A n \in 1..Len(stack) :
        (stack[n].node.k = "FunctionExecute" /\ stack[n].pc = "body") =>
            tables[TableOf(contexts, stack[n].loc.exec_context)].parent
                = TableOf(contexts, stack[n].node.self.defined_in)

\* C2: `stay n = e` fails with the constant-reassignment error exactly when
\* n is bound in the current environment itself; bound only in an ancestor,
\* the assignment succeeds and binds n in the current environment.
ConstAssignStep ==
    Running /\ Top.node.k = "ConstAssign" /\ Top.pc = "value" /\ ~ShouldReturn(ret)

C2_ConstChecksCurrentScopeOnly ==
    [][ConstAssignStep =>
          IF Bound(tables, St(Top), Top.node.const_name)
          THEN /\ IsSome(ret'.error)
               /\ ret'.error.text = "cannot reassign the value of a constant"
               /\ tables' = tables
          ELSE /\ IsNone(ret'.error)
               /\ Bound(tables', St(Top), Top.node.const_name)
               /\ tables'[St(Top)].symbols[Top.node.const_name] = ret.value]_vars

\* C3: an error that is not the error of a try body short-circuits the
\* evaluation: the handler that receives it returns the same error to its
\* caller without evaluating anything else, binding anything or printing,
\* up to the program's result.
UncaughtError ==
    /\ Running /\ Returned /\ IsSome(ret.error)
    /\ ~(Top.node.k = "TryExcept" /\ Top.pc = "try")

C3_ErrorShortCircuits ==
    [][UncaughtError =>
          /\ Popped
          /\ ret' # NoRet /\ ret'.error = ret.error
          /\ out' = out /\ tables' = tables
          /\ status' \in {"running", "done"}]_vars

\* C7: a function reads the variables of its defining scope by reference: a
\* free name of the body that is bound in the defining scope chain reads
\* the value the name has there at the time of the call, also when it was
\* reassigned after the definition.
FreeRead(n) ==
    /\ CallFrameOf(n) # 0
    /\ stack[n].node.k = "VariableAccess"
    /\ stack[n].ctx = stack[CallFrameOf(n)].loc.exec_context
    /\ ~Bound(tables, St(stack[n]), stack[n].node.var_name)

DefiningTable(n) == TableOf(contexts, stack[CallFrameOf(n)].node.self.defined_in)

C7_ReadsDefiningScopeByReference ==
    (Running /\ FreeRead(Len(stack))
       /\ IsSome(SymbolTableGet(tables, DefiningTable(Len(stack)), Top.node.var_name))) =>
        SymbolTableGet(tables, St(Top), Top.node.var_name)
            = SymbolTableGet(tables, DefiningTable(Len(stack)), Top.node.var_name)

\* C4: in `unsafe { T } safe e { R }` an error of T is bound, as the string
\* of its message text, to e in the current environment and R is evaluated
\* next; when R completes normally the construct yields the null sentinel
\* and no error; when T produces no error R is not evaluated.
TryBodyReturned == Running /\ Returned /\ Top.node.k = "TryExcept" /\ Top.pc = "try"
ExceptBodyReturned == Running /\ Returned /\ Top.node.k = "TryExcept" /\ Top.pc = "except"

Contains(s, sub) ==
    \E i \in 1..(Len(s) - Len(sub) + 1) : SubSeq(s, i, i + Len(sub) - 1) = sub

ParamsOf(self) ==
    IF self.t = "function" THEN self.arg_names ELSE BuiltInParams(self.name)

ArityMismatchCall ==
    /\ Running /\ Top.pc = "start"
    /\ Top.node.k \in {"FunctionExecute", "BuiltInFunctionExecute"}
    /\ Len(Top.node.args) # Len(ParamsOf(Top.node.self))

C5_ArityMismatchFails ==
    [][ArityMismatchCall =>
          /\ Popped
          /\ ret' # NoRet /\ IsSome(ret'.error)
          /\ ret'.error.text = "invalid function call"
          /\ IsSome(ret'.error.help)
          /\ Contains(ret'.error.help.value,
                      "takes " \o ToString(Len(ParamsOf(Top.node.self))) \o " ")
          /\ Contains(ret'.error.help.value,
                      "gave " \o ToString(Len(Top.node.args)))
          /\ out' = out
          /\ \A t \in 1..Len(tables) : tables'[t] = tables[t]
          /\ \A t \in (Len(tables) + 1)..Len(tables') :
                 \A i \in 1..Len(ParamsOf(Top.node.self)) :
                     ~Bound(tables', t, ParamsOf(Top.node.self)[i])]_vars

\* a user function of one or two parameters called with too few arguments
C5_Witness ==
    /\ status = "done" /\ prog \in ArityPrograms
    /\ IsSome(ret.error) /\ ret.error.text = "invalid function call"
    /\ out = <<>>
    /\ \E t \in 1..Len(tables) : "f" \in DOMAIN tables[t].symbols

\* C6 as stated: `obj n = e` never fails, binds n in the innermost
\* environment, overwriting a binding there, and changes no other
\* environment.
AssignStep ==
    Running /\ Top.node.k = "VariableAssign" /\ Top.pc = "value" /\ ~ShouldReturn(ret)

AssignBindsInnermost ==
    /\ Popped
    /\ ret' # NoRet /\ IsNone(ret'.error)
    /\ Bound(tables', St(Top), Top.node.var_name)
    /\ tables'[St(Top)].symbols[Top.node.var_name] = ret.value
    /\ \A t \in 1..Len(tables) : t # St(Top) => tables'[t] = tables[t]
    /\ \A n \in DOMAIN tables[St(Top)].symbols :
           n # Top.node.var_name => tables'[St(Top)].symbols[n] = tables[St(Top)].symbols[n]

C6_AssignAlwaysBinds == [][AssignStep => AssignBindsInnermost]_vars

\* C6 as amended: the same for every name but `_`; an assignment to `_`
\* evaluates e, does not fail and binds nothing.
C6_AssignBindsUnlessSink ==
    [][AssignStep =>
          IF Top.node.var_name = "_"
          THEN Popped /\ ret' # NoRet /\ IsNone(ret'.error) /\ tables' = tables
          ELSE AssignBindsInnermost]_vars

\* obj x = 1 in a function body shadowed the x of the global scope, bound
\* by obj or stay, and the global x is still 0 after the call
C6_Witness ==
    /\ status = "done" /\ prog \in AssignPrograms
    /\ out = <<"1", "0">>

\* C8: a counted loop runs its body once for each value s, s+k, s+2k, ...
\* that is less than e (k >= 0) or greater than e (k < 0), in that order,
\* with the loop variable bound to the value in the current environment
\* when the iteration starts; the step is 1 when none is written; the loop
\* yields the null sentinel.
ForHeaderDone ==
    /\ Top.pc \in {"end_value", "step_value"}
    /\ Top.pc = "end_value" => ~HasNode(Top.node.step_value_node)
    /\ ~ShouldReturn(ret) /\ IsSome(ret.value) /\ ret.value.t = "number"

ForBodyDone == Top.pc = "body" /\ (~ShouldReturn(ret) \/ ret.loop_should_continue)

ForTests ==
    /\ Running /\ Returned /\ Top.node.k = "For"
    /\ ForHeaderDone \/ ForBodyDone

EndOf(f) == IF f.pc = "end_value" THEN ret.value.value ELSE f.loc.end_value
StepOf(f) == IF f.pc = "step_value" THEN ret.value.value ELSE f.loc.step_value
NextValue(f) == f.loc.start_value + Len(f.loc.iters) * StepOf(f)
InRange(v, e, k) == (k >= 0 /\ v < e) \/ (k < 0 /\ v > e)

LoopSignal(r) == r.loop_should_continue \/ r.loop_should_break
InLoopBody(f) == f.node.k \in {"For", "While"} /\ f.pc = "body"

C9_NextAndLeave ==
    [][/\ (Running /\ Top.node.k = "Continue") => Popped /\ ret' = SuccessContinue
       /\ (Running /\ Top.node.k = "Break") => Popped /\ ret' = SuccessBreak
       /\ (Running /\ Returned /\ LoopSignal(ret) /\ ~InLoopBody(Top)) =>
             /\ Popped /\ ret' = ret
             /\ out' = out /\ tables' = tables
       /\ (Running /\ Returned /\ InLoopBody(Top) /\ ret.loop_should_break) =>
             Popped /\ ret' = Success(null_value)
       /\ (Running /\ Returned /\ InLoopBody(Top) /\ ret.loop_should_continue) =>
             IF Pushed
             THEN stack'[Len(stack')].node =
                      IF Top.node.k = "For" THEN Top.node.body_node
                      ELSE Top.node.condition_node
             ELSE Popped /\ ret' = Success(null_value)
       /\ (Running /\ Returned /\ InLoopBody(Top) /\ Popped) => ~LoopSignal(ret')]_vars

\* leave in the inner loop at j = 1: the outer loop ran both iterations
C9_Witness ==
    /\ status = "done" /\ prog \in LoopControlPrograms
    /\ out = <<"0", "outer", "0", "outer", "end">>

\* C10: a call of a user function yields the value of the first give its
\* body executes, and nothing of the body is evaluated after that give; it
\* yields the null sentinel when the body completes without a give; a give
\* without an expression gives the null sentinel.
InCallBody(f) == f.node.k = "FunctionExecute" /\ f.pc = "body"

C10_CallYieldsFirstGive ==
    [][/\ (Running /\ Top.node.k = "Return" /\ Top.pc = "start"
              /\ ~HasNode(Top.node.node_to_return)) =>
             Popped /\ ret' # NoRet /\ ret'.func_return_value = null_value
       /\ (Running /\ Top.node.k = "Return" /\ Top.pc = "value" /\ ~ShouldReturn(ret)) =>
             Popped /\ ret' # NoRet /\ ret'.func_return_value = ret.value
       /\ (Running /\ Returned /\ IsSome(ret.func_return_value) /\ ~InCallBody(Top)) =>
             /\ Popped /\ ret' = ret
             /\ out' = out /\ tables' = tables
       /\ (Running /\ Returned /\ IsSome(ret.func_return_value) /\ InCallBody(Top)) =>
             Popped /\ ret' = Success(ret.func_return_value)
       /\ (Running /\ Returned /\ ~ShouldReturn(ret) /\ InCallBody(Top)) =>
             Popped /\ ret' = Success(null_value)]_vars

\* serve("a"); give 1; serve("b"); give 2: the call printed a and yielded 1
C10_Witness ==
    /\ status = "done" /\ prog \in ReturnPrograms
    /\ out = <<"a", "1">>

\* C11: a conditional evaluates the conditions of its cases in order, up
\* to the first truthy one, and the body of that case only; with no truthy
\* condition it evaluates the else body when there is one and yields the
\* null sentinel otherwise.  A number is truthy iff it is not zero, a
\* string or a list iff it is empty.
Truthy(v) ==
    CASE v.t = "number" -> v.value # 0
      [] v.t = "string" -> Len(v.value) = 0
      [] v.t = "list" -> Len(v.elements) = 0
      [] OTHER -> FALSE

IfFrame(pc) == Running /\ Top.node.k = "If" /\ Top.pc = pc
PushedNode(node) == Pushed /\ stack'[Len(stack')].node = node

C11_ConditionalFirstTruthyCase ==
    [][/\ IfFrame("start") => PushedNode(Top.node.cases[1].condition)
       /\ (IfFrame("condition") /\ ~ShouldReturn(ret)
              /\ ret.value.t \in {"number", "string", "list"}) =>
             IF Truthy(ret.value)
             THEN PushedNode(Top.node.cases[Top.loc.idx].expr)
             ELSE IF Top.loc.idx < Len(Top.node.cases)
             THEN PushedNode(Top.node.cases[Top.loc.idx + 1].condition)
             ELSE IF IsSome(Top.node.else_case)
             THEN PushedNode(Top.node.else_case.expr)
             ELSE Popped /\ ret' = Success(null_value)
       /\ ((IfFrame("expr") \/ IfFrame("else")) /\ ~ShouldReturn(ret)) =>
             Popped /\ ret' # NoRet /\ ~ShouldReturn(ret')]_vars

\* if 0 { } alsoif "" { serve("second") } otherwise { }: the second body ran
C11_Witness ==
    /\ status = "done" /\ prog \in IfPrograms
    /\ prog.element_nodes[1].k = "If"
    /\ prog.element_nodes[1].cases[1].condition = Num(0)
    /\ prog.element_nodes[1].cases[2].condition = Str("")
    /\ IsSome(prog.element_nodes[1].else_case)
    /\ out = <<"second", "end">>

\* C12: the root environment of every evaluator binds each built-in that
\* BuiltInFunction::execute implements, print-inline and sleep included, so
\* that the name of a built-in is never an undefined variable.
C12_RootBindsEveryBuiltIn ==
    /\ \A t \in 1..Len(tables) :
           tables[t].parent = 0 => \A name \in ExecuteNames : Bound(tables, t, name)
    /\ (status = "done" /\ prog \in BuiltInCallPrograms /\ IsSome(ret.error)) =>
           \A name \in ExecuteNames :
               ret.error.text # "variable name '" \o name \o "' is undefined"

\* C13: for lists a and b of numbers, a == b yields 1 exactly when a[i] and
\* b[i] are equal at every position below the length of the shorter list,
\* and 0 otherwise.
Min(a, b) == IF a < b THEN a ELSE b

ListOperands(op) ==
    /\ Running /\ Returned /\ Top.node.k = "BinaryOperator" /\ Top.pc = "right"
    /\ Top.node.op = op
    /\ ~ShouldReturn(ret)
    /\ Top.loc.left.t = "list" /\ ret.value.t = "list"

C13_ListEqualityPairwise ==
    [][ListOperands("==") =>
          LET a == Top.loc.left.elements
              b == ret.value.elements
          IN  /\ Popped /\ ret' # NoRet /\ IsNone(ret'.error)
              /\ ret'.value =
                     IF \A i \in 1..Min(Len(a), Len(b)) : a[i] = b[i]
                     THEN NumberValue(1) ELSE NumberValue(0)]_vars

(***************************************************************************)
(* The operations on values, applied to operands drawn from small sets.    *)
(* prog holds the operands, ret the outcome as visit_binary_operator_node  *)
(* returns it.                                                             *)
(***************************************************************************)
OperandLists ==
    {<<>>} \cup {<<NumberValue(a)>> : a \in Lits}
    \cup {<<NumberValue(a), NumberValue(a + 1)>> : a \in Lits}

IndexOperations ==
    {[k |-> "ListIndex", elements |-> l, twice |-> t] :
        l \in OperandLists, t \in (0 - 2 * MaxNum - 2)..(2 * MaxNum + 2)}

\* a / b for b = 0 and for the pairs with an integer quotient, a ^ b, a % b
NumberRange == (0 - MaxNum - 1)..(MaxNum + 1)

NumberOperations ==
    {[k |-> "NumberOperation", self |-> NumberValue(a), operator |-> op,
      other |-> NumberValue(b)] : a \in NumberRange, b \in NumberRange, op \in {"^", "%"}}
    \cup
    {[k |-> "NumberOperation", self |-> NumberValue(q * b), operator |-> "/",
      other |-> NumberValue(b)] : q \in NumberRange, b \in NumberRange}

Operations == IndexOperations \cup NumberOperations

OperationOutcome(r) == IF IsErr(r) THEN Failure(r) ELSE Success(r)

OpsInit ==
    /\ prog \in Operations
    /\ tables = <<GlobalSymbolTable>>
    /\ contexts = <<ContextNew("<program>", 0, 1)>>
    /\ stack = <<>>
    /\ ret = NoRet
    /\ status = "running"
    /\ out = <<>>
    /\ steps = 0

ApplyListIndex ==
    /\ status = "running" /\ prog.k = "ListIndex"
    /\ ret' = OperationOutcome(ListIndex(prog.elements, prog.twice))
    /\ status' = "done"
    /\ steps' = steps + 1
    /\ UNCHANGED <<prog, tables, contexts, stack, out>>

ApplyNumberOperation ==
    /\ status = "running" /\ prog.k = "NumberOperation"
    /\ ret' = OperationOutcome(PerformOperation(prog.self, prog.operator, prog.other))
    /\ status' = "done"
    /\ steps' = steps + 1
    /\ UNCHANGED <<prog, tables, contexts, stack, out>>

OpsNext ==
    \/ ApplyListIndex
    \/ ApplyNumberOperation

OpsSpec == OpsInit /\ [][OpsNext]_vars

\* C14: l ^ n is l reversed when n = -1, fails with the negative-index
\* error for every other negative n, fails with the out-of-range error
\* when n is at or beyond the length of l, and is the element at position
\* n otherwise.
C14_ListIndex ==
    (status = "done" /\ prog.k = "ListIndex") =>
        LET l == prog.elements
            t == prog.twice
        IN  IF t = -2 THEN ret = Success(ListValue(ReverseSeq(l)))
            ELSE IF t < 0
            THEN IsSome(ret.error) /\ ret.error.text = "cannot access a negative index"
            ELSE IF t >= 2 * Len(l)
            THEN IsSome(ret.error) /\ ret.error.text = "index is out of bounds"
            ELSE t % 2 = 0 => ret = Success(l[(t \div 2) + 1])

\* C15: a / b fails with the division-by-zero error exactly when b = 0;
\* a ^ b fails with the power-domain error exactly when b <= 0; a % b fails
\* exactly when b <= 0 and is otherwise the r with 0 <= r < b and a - r a
\* multiple of b.
Fails(text) == IsSome(ret.error) /\ ret.error.text = text
Yields == IsNone(ret.error) /\ IsSome(ret.value) /\ ret.value.t = "number"

C15_NumberDomainErrors ==
    (status = "done" /\ prog.k = "NumberOperation") =>
        LET a == prog.self.value
            b == prog.other.value
        IN  CASE prog.operator = "/" ->
                    IF b = 0 THEN Fails("division by zero")
                    ELSE Yields /\ ret.value.value * b = a
              [] prog.operator = "^" ->
                    IF b <= 0 THEN Fails("powered by operator less than or equal to 0")
                    ELSE Yields
              [] OTHER ->
                    IF b <= 0 THEN Fails("modded by operator less than or equal to 0")
                    ELSE /\ Yields
                         /\ 0 <= ret.value.value /\ ret.value.value < b
                         /\ \E q \in (0 - 2 * MaxNum - 4)..(2 * MaxNum + 4) :
                                a - ret.value.value = q * b

\* -3 % 2 is 1
C15_Witness ==
    /\ status = "done" /\ prog.k = "NumberOperation"
    /\ prog.operator = "%" /\ prog.self.value = -3 /\ prog.other.value = 2
    /\ ret = Success(NumberValue(1))

(***************************************************************************)
(* Imports.                                                                *)
(***************************************************************************)
\* the path expression of an import has just yielded the string path
ImportPathDone(path) ==
    /\ Running /\ Top.node.k = "Import" /\ Top.pc = "path"
    /\ Returned /\ ~ShouldReturn(ret) /\ IsSome(ret.value)
    /\ ret.value = StringValue(path)

\* the step reads the file and starts the evaluation of its root node
ReadsAndEvaluates == Pushed /\ stack'[Len(stack')].ctx = Len(contexts) + 1

\* C16: an import whose path is the file that contains the import fails with
\* the circular-import error, and the step neither reads nor evaluates the file.
C16_SelfImportIsCircular ==
    [][\A path \in Paths :
          (ImportPathDone(path) /\ Inode(path) # 0 /\ Inode(path) = Inode(Top.node.filename))
              => /\ Popped
                 /\ ret' = Failure(StandardError("circular import", NoneV))
                 /\ ~ReadsAndEvaluates
                 /\ UNCHANGED <<tables, contexts, out>>]_vars

\* C17: an import of a path that names no existing file is rejected by the
\* existence check with the file-not-found error; no read is attempted.
C17_MissingFileIsNotFound ==
    [][\A path \in Paths :
          (ImportPathDone(path) /\ FsExists(path) = "Ok(false)")
              => /\ Popped
                 /\ IsSome(ret'.error)
                 /\ ret'.error.text = "file doesn't exist or isn't valid"]_vars

\* the module of an import has been evaluated without an error
ModuleDone ==
    /\ Running /\ Top.node.k = "Import" /\ Top.pc = "module"
    /\ Returned /\ IsNone(ret.error)

ModuleSymbols == tables[TableOf(contexts, Top.loc.module_context)].symbols

\* C18: when the module of an import has been evaluated, the import succeeds
\* and every name bound in the top-level scope of the module is bound to the
\* same value in the importing scope, whatever that scope bound before.
C18_ImportMergesFlat ==
    [][ModuleDone =>
          /\ Popped
          /\ ret' = Success(null_value)
          /\ \A name \in DOMAIN ModuleSymbols :
                /\ Bound(tables', St(Top), name)
                /\ tables'[St(Top)].symbols[name] = ModuleSymbols[name]]_vars

\* g binds x, imports m.maid (x = 1) and then n.maid (x = 2), and gives x
C18_Witness ==
    /\ status = "done"
    /\ prog = Block(<<Func("g", <<>>, <<Obj("x", Num(0)), Fetch(MainFile, "m.maid"),
                                       Fetch(MainFile, "n.maid"), Give(Var("x"))>>),
                      Serve(Call("g", <<>>))>>)
    /\ out = <<"2">>
    /\ IsNone(ret.error)

(***************************************************************************)
(* The run built-in.                                                       *)
(***************************************************************************)
\* the activations of run whose text is being evaluated
RunFrames(stk) ==
    {i \in 1..Len(stk) : stk[i].node.k = "BuiltInFunctionExecute" /\ stk[i].pc = "exec"}

\* the tables a lookup that starts in table st can read
RECURSIVE Scopes(_, _)
Scopes(tbls, st) ==
    IF tbls[st].parent = 0 THEN {st} ELSE {st} \cup Scopes(tbls, tbls[st].parent)

\* every activation of the text reads only tables made after the call
TextSeesFreshScope(stk, tbls, ctxs) ==
    \A i \in RunFrames(stk) : \A j \in (i + 1)..Len(stk) :
        /\ stk[j].interp > stk[i].loc.tables_before
        /\ \A st \in Scopes(tbls, TableOf(ctxs, stk[j].ctx)) :
              st > stk[i].loc.tables_before

RunCalled ==
    /\ Running /\ Top.node.k = "BuiltInFunctionExecute" /\ Top.node.self.name = "run"
    /\ Top.pc = "start"

\* the number of tables and of contexts of the caller of the outermost run
CallerTables ==
    IF RunFrames(stack) = {} THEN Len(tables)
    ELSE stack[CHOOSE i \in RunFrames(stack) : \A j \in RunFrames(stack) : i <= j]
            .loc.tables_before

CallerContexts ==
    IF RunFrames(stack) = {} THEN Len(contexts)
    ELSE stack[CHOOSE i \in RunFrames(stack) : \A j \in RunFrames(stack) : i <= j]
            .loc.contexts_before

\* C19: from the call of run to its return, the tables and contexts of the
\* caller stay as they were, and the text is evaluated in scopes made after
\* the call, which start from a new global table: it reads no name of the
\* caller and leaves the caller no name.
C19_RunUsesFreshGlobalScope ==
    [][(RunCalled \/ RunFrames(stack) # {}) =>
          /\ SubSeq(tables', 1, CallerTables) = SubSeq(tables, 1, CallerTables)
          /\ SubSeq(contexts', 1, CallerContexts) = SubSeq(contexts, 1, CallerContexts)
          /\ TextSeesFreshScope(stack', tables', contexts')
          /\ (RunCalled /\ Pushed) =>
                tables'[TableOf(contexts', stack'[Len(stack')].ctx)] = GlobalSymbolTable]_vars

\* x is 1, the text binds x to 2, and the caller still reads 1
C19_Witness ==
    /\ status = "done"
    /\ prog = Block(<<Obj("x", Num(1)), Call("run", <<Str("obj x = 2")>>), Serve(Var("x"))>>)
    /\ out = <<"1">>
    /\ IsNone(ret.error)

(***************************************************************************)
(* Errors in the header of a counted loop.                                 *)
(***************************************************************************)
ForHeaderError ==
    /\ Running /\ Returned /\ Top.node.k = "For"
    /\ Top.pc \in {"start_value", "end_value", "step_value"}
    /\ IsSome(ret.error)

\* C24: when the start, end or step expression of a counted loop returns an
\* error, the loop returns that error, its body is not visited, nothing is
\* bound or printed, and the evaluator does not panic.
C24_ForHeaderErrorIsResult ==
    [][ForHeaderError =>
          /\ status' # "panic"
          /\ Popped
          /\ ret' # NoRet /\ ret'.error = ret.error
          /\ out' = out /\ tables' = tables]_vars

(***************************************************************************)
(* The results of visit.                                                   *)
(***************************************************************************)
\* the activations of Interpreter::visit; the others are calls of execute
VisitFrame(f) == f.node.k \notin {"FunctionExecute", "BuiltInFunctionExecute"}

SignalsOf(r) ==
    {s \in {"error", "func_return_value"} : IsSome(r[s])}
    \cup {s \in {"loop_should_continue", "loop_should_break"} : r[s]}

\* C28: the result a visit returns carries at most one of the signals
\* error, function-return value, continue and break; it carries a value
\* exactly when it carries no signal.
C28_ResultSignalsExclusive ==
    [][(Running /\ VisitFrame(Top) /\ Popped) =>
          /\ ret' # NoRet
          /\ Cardinality(SignalsOf(ret')) <= 1
          /\ IsSome(ret'.value) <=> SignalsOf(ret') = {}]_vars

\* serve("a"); give 1; serve("b") at top level: the program's result is the
\* function-return signal alone
C28_Witness ==
    /\ status = "done"
    /\ prog = Block(<<Serve(Str("a")), Give(Num(1)), Serve(Str("b"))>>)
    /\ SignalsOf(ret) = {"func_return_value"}
    /\ IsNone(ret.value)

(***************************************************************************)
(* leave and next in a function body.                                      *)
(***************************************************************************)
CallReturned == Top.node.k = "Call" /\ Top.pc = "execute"

\* C29: a break or continue signal that the body of a function returns is
\* not consumed by the call: execute and the call node hand it to the
\* caller unchanged and without a value, and the loop of the caller that
\* encloses the call ends (leave) or goes on with its next iteration
\* (next): with the call in `walk i = 0 through 2`, leave prints 0 f end
\* and next prints 0 f 1 f end.
C29_SignalEscapesCall ==
    [][/\ (Running /\ Returned /\ LoopSignal(ret) /\ (InCallBody(Top) \/ CallReturned)) =>
             /\ Popped
             /\ ret' = ret /\ IsNone(ret'.value)
             /\ out' = out /\ tables' = tables
       /\ \A in_if \in BOOLEAN :
             /\ (prog = CallControlProgram(BreakNode, in_if) /\ status' = "done") =>
                   out' = <<"0", "f", "end">>
             /\ (prog = CallControlProgram(ContinueNode, in_if) /\ status' = "done") =>
                   out' = <<"0", "f", "1", "f", "end">>]_vars

\* next in f, called from the loop body: both iterations ran up to the call
C29_Witness ==
    /\ status = "done"
    /\ prog = CallControlProgram(ContinueNode, FALSE)
    /\ out = <<"0", "f", "1", "f", "end">>
    /\ IsNone(ret.error)

(***************************************************************************)
(* The counter of a counted loop.                                          *)
(***************************************************************************)
Abs(n) == IF n < 0 THEN 0 - n ELSE n

\* C30: in a counted loop with a step other than zero, the k-th iteration
\* binds the loop variable to start + (k - 1) * step, whatever the body
\* assigned to the variable, every such value lies before the end value,
\* and the counter stands one step after the last of them: the iterations
\* are fewer than |end - start| / |step| + 1.
C30_LoopCounterIndependent ==
    \A n \in 1..Len(stack) :
        (stack[n].node.k = "For" /\ stack[n].pc = "body"
            /\ stack[n].loc.step_value # 0) =>
            LET l == stack[n].loc
            IN  /\ l.i = l.start_value + Len(l.iters) * l.step_value
                /\ \A k \in 1..Len(l.iters) :
                       /\ l.iters[k] = l.start_value + (k - 1) * l.step_value
                       /\ InRange(l.iters[k], l.end_value, l.step_value)
                /\ Len(l.iters) * Abs(l.step_value)
                       < Abs(l.end_value - l.start_value) + Abs(l.step_value)

\* walk i = 0 through 2 { obj i = i + 5; serve(i) } ran twice, for 0 and 1
C30_Witness ==
    /\ status = "done"
    /\ prog = Block(<<Walk("i", Num(0), Num(2), NoNode,
                           Block(<<Obj("i", Bin(Var("i"), "+", Num(5))),
                                   Serve(Var("i"))>>)),
                      Serve(Str("end"))>>)
    /\ out = <<"5", "6", "end">>

(***************************************************************************)
(* The parser (src/src/parsing/parser.rs) on the tokens of numbers, names, *)
(* not, +, parentheses, commas and newlines.  A rule takes the token list  *)
(* and token_index and yields its ParseResult and the token_index it       *)
(* leaves, or a panic; the alternatives of a rule that start with another  *)
(* token are not taken on these tokens.                                    *)
(***************************************************************************)
MaxTokens == 5

\* the opening parentheses of a token list bound the depth of its expressions
MaxNesting == 2

Token(token_type, value) == [token_type |-> token_type, value |-> value]

TT_EOF == Token("TT_EOF", "")

TokenAlphabet ==
    {Token("TT_INT", "1"), Token("TT_IDENTIFIER", "f"), Token("TT_KEYWORD", "not"),
     Token("TT_PLUS", ""), Token("TT_LPAREN", ""), Token("TT_RPAREN", ""),
     Token("TT_COMMA", ""), Token("TT_NEWLINE", "")}

\* ParseResult
ParseResultNew ==
    [error |-> NoneV, node |-> NoNode, last_registered_advance_count |-> 0,
     advance_count |-> 0, to_reverse_count |-> 0]

RegisterAdvancement(pr) ==
    [pr EXCEPT !.last_registered_advance_count = 1, !.advance_count = @ + 1]

\* register: the result after the call; the call yields parse_result.node
ParseRegister(pr, parse_result) ==
    [pr EXCEPT !.last_registered_advance_count = parse_result.advance_count,
               !.advance_count = @ + parse_result.advance_count,
               !.error = IF IsSome(parse_result.error) THEN parse_result.error ELSE @]

\* try_register of a result with an error: nothing is registered
TryRegisterFailed(pr, parse_result) ==
    [pr EXCEPT !.to_reverse_count = parse_result.advance_count]

ParseResultSuccess(pr, node) == [pr EXCEPT !.node = node]

ParseResultFailure(pr, error) ==
    IF IsNone(pr.error) \/ pr.last_registered_advance_count = 0
    THEN [pr EXCEPT !.error = error]
    ELSE pr

\* update_current_token keeps the last token when token_index passes the end
CurrentToken(tokens, token_index) ==
    tokens[IF token_index <= Len(tokens) THEN token_index ELSE Len(tokens)]

Parsed(pr, token_index) == [panic |-> FALSE, pr |-> pr, token_index |-> token_index]
ParserPanic == [panic |-> TRUE]

ExpectedExpression ==
    StandardError("expected keyword, object, function, expression", NoneV)

RECURSIVE statements(_, _), statement(_, _), expr(_, _), comparison_expr(_, _),
          binary_operator(_, _, _, _, _), BinaryOperatorLoop(_, _, _, _, _, _),
          Rule(_, _, _), factor(_, _), call(_, _), CallArguments(_, _, _, _, _),
          atom(_, _), if_expr(_, _), if_expr_cases(_, _, _), if_expr_b_or_c(_, _),
          IfAlsoIfLoop(_, _, _, _), IfOtherwise(_, _, _, _, _), if_expr_c(_, _),
          for_expr(_, _), while_expr(_, _), func_definition(_, _),
          FuncArgNames(_, _, _, _), skip_separators(_, _, _)

\* skip_separators: the tokens of a newline or a semicolon
skip_separators(tokens, i, parse_result) ==
    IF CurrentToken(tokens, i).token_type \in {"TT_NEWLINE", "TT_SEMI"}
    THEN skip_separators(tokens, i + 1, RegisterAdvancement(parse_result))
    ELSE [pr |-> parse_result, token_index |-> i]

ExpectedLBracket == StandardError("expected '{'", Some("add a '{' to define the body"))
ExpectedRBracket == StandardError("expected '}'", Some("add a '}' to close the body"))

\* the triple (ParseResult, cases, else_case) of the rules of a conditional
ParsedCases(pr, token_index, cases, else_case) ==
    [panic |-> FALSE, pr |-> pr, token_index |-> token_index, cases |-> cases,
     else_case |-> else_case]

if_expr_c(tokens, i) ==
    LET skipped == skip_separators(tokens, i + 1, RegisterAdvancement(ParseResultNew))
        j == skipped.token_index
        Body(body) ==
            LET registered == ParseRegister(RegisterAdvancement(skipped.pr), body.pr)
            IN  IF body.panic THEN ParserPanic
                ELSE IF IsSome(registered.error)
                THEN ParsedCases(registered, body.token_index, <<>>, NoneV)
                ELSE IF ~HasNode(body.pr.node) THEN ParserPanic
                ELSE IF CurrentToken(tokens, body.token_index).token_type # "TT_RBRACKET"
                THEN ParsedCases(ParseResultFailure(registered, ExpectedRBracket),
                                 body.token_index, <<>>, NoneV)
                ELSE ParsedCases(RegisterAdvancement(registered), body.token_index + 1,
                                 <<>>, ElseCase(body.pr.node, TRUE))
    IN  IF CurrentToken(tokens, i) # Token("TT_KEYWORD", "otherwise")
        THEN ParsedCases(ParseResultNew, i, <<>>, NoneV)
        ELSE IF CurrentToken(tokens, j).token_type # "TT_LBRACKET"
        THEN ParsedCases(ParseResultFailure(skipped.pr, ExpectedLBracket), j, <<>>, NoneV)
        ELSE Body(Rule("statements", tokens, j + 1))

\* the test of `otherwise` that ends if_expr_b_or_c
IfOtherwise(tokens, i, parse_result, cases, else_case) ==
    LET Else(else_result) ==
            IF else_result.panic THEN ParserPanic
            ELSE IF IsSome(else_result.pr.error)
            THEN ParsedCases(else_result.pr, else_result.token_index, <<>>, NoneV)
            ELSE ParsedCases(ParseRegister(parse_result, else_result.pr),
                             else_result.token_index, cases, else_result.else_case)
    IN  IF CurrentToken(tokens, i) = Token("TT_KEYWORD", "otherwise")
        THEN Else(Rule("if_expr_c", tokens, i))
        ELSE ParsedCases(parse_result, i, cases, else_case)

\* the while loop of if_expr_b_or_c over `alsoif`; if_expr_b is
\* if_expr_cases("alsoif")
IfAlsoIfLoop(tokens, i, parse_result, cases) ==
    LET Case(if_result) ==
            IF if_result.panic THEN ParserPanic
            ELSE IF IsSome(if_result.pr.error)
            THEN ParsedCases(if_result.pr, if_result.token_index, <<>>, NoneV)
            ELSE IF IsSome(if_result.else_case)
            THEN IfOtherwise(tokens, if_result.token_index,
                             ParseRegister(parse_result, if_result.pr),
                             cases \o if_result.cases, if_result.else_case)
            ELSE IfAlsoIfLoop(tokens, if_result.token_index,
                              ParseRegister(parse_result, if_result.pr),
                              cases \o if_result.cases)
    IN  IF CurrentToken(tokens, i) = Token("TT_KEYWORD", "alsoif")
        THEN Case(if_expr_cases(tokens, i, "alsoif"))
        ELSE IfOtherwise(tokens, i, parse_result, cases, NoneV)

if_expr_b_or_c(tokens, i) == IfAlsoIfLoop(tokens, i, ParseResultNew, <<>>)

if_expr_cases(tokens, i, keyword) ==
    LET Condition(condition) ==
            LET registered == ParseRegister(RegisterAdvancement(ParseResultNew),
                                            condition.pr)
                skipped == skip_separators(tokens, condition.token_index, registered)
                j == skipped.token_index
                Body(body) ==
                    LET parse_result == ParseRegister(RegisterAdvancement(skipped.pr),
                                                      body.pr)
                        Rest(rest) ==
                            IF rest.panic THEN ParserPanic
                            ELSE IF IsSome(rest.pr.error)
                            THEN ParsedCases(rest.pr, rest.token_index, <<>>, NoneV)
                            ELSE ParsedCases(RegisterAdvancement(parse_result),
                                     rest.token_index,
                                     <<IfCase(condition.pr.node, body.pr.node, TRUE)>>
                                         \o rest.cases,
                                     rest.else_case)
                    IN  IF body.panic THEN ParserPanic
                        ELSE IF IsSome(parse_result.error)
                        THEN ParsedCases(parse_result, body.token_index, <<>>, NoneV)
                        ELSE IF ~HasNode(condition.pr.node) \/ ~HasNode(body.pr.node)
                        THEN ParserPanic
                        ELSE IF CurrentToken(tokens, body.token_index).token_type
                                    # "TT_RBRACKET"
                        THEN ParsedCases(ParseResultFailure(parse_result, ExpectedRBracket),
                                         body.token_index, <<>>, NoneV)
                        ELSE Rest(Rule("if_expr_b_or_c", tokens, body.token_index + 1))
            IN  IF condition.panic THEN ParserPanic
                ELSE IF IsSome(registered.error)
                THEN ParsedCases(registered, condition.token_index, <<>>, NoneV)
                ELSE IF CurrentToken(tokens, j).token_type # "TT_LBRACKET"
                THEN ParsedCases(ParseResultFailure(skipped.pr, ExpectedLBracket), j,
                                 <<>>, NoneV)
                ELSE Body(Rule("statements", tokens, j + 1))
    IN  IF CurrentToken(tokens, i) # Token("TT_KEYWORD", keyword)
        THEN ParsedCases(ParseResultFailure(ParseResultNew,
                             StandardError("expected keyword",
                                 Some("add the '" \o keyword \o "' keyword"))),
                         i, <<>>, NoneV)
        ELSE Condition(Rule("statement", tokens, i + 1))

\* the ParseResult of a conditional that parsed is a new one: it counts no
\* advancement
if_expr(tokens, i) ==
    LET Cases(if_result) ==
            IF if_result.panic THEN ParserPanic
            ELSE IF IsSome(if_result.pr.error)
            THEN Parsed(if_result.pr, if_result.token_index)
            ELSE Parsed(ParseResultSuccess(ParseResultNew,
                            IfNode(if_result.cases, if_result.else_case)),
                        if_result.token_index)
    IN  Cases(if_expr_cases(tokens, i, "if"))

for_expr(tokens, i) ==
    LET var_name == CurrentToken(tokens, i + 1)
        named == RegisterAdvancement(RegisterAdvancement(ParseResultNew))
        Start(start_value) ==
            LET started == ParseRegister(RegisterAdvancement(named), start_value.pr)
                End(end_value) ==
                    LET ended == ParseRegister(RegisterAdvancement(started), end_value.pr)
                        Braces(parse_result, j, step_value) ==
                            LET skipped == skip_separators(tokens, j, parse_result)
                                k == skipped.token_index
                                opened == RegisterAdvancement(skipped.pr)
                                Loop(body) ==
                                    ForNode(var_name.value, start_value.pr.node,
                                            end_value.pr.node, step_value, body)
                                BlockBody(body) ==
                                    LET registered ==
                                            ParseRegister(RegisterAdvancement(opened),
                                                          body.pr)
                                    IN  IF body.panic THEN ParserPanic
                                        ELSE IF IsSome(registered.error)
                                        THEN Parsed(registered, body.token_index)
                                        ELSE IF CurrentToken(tokens, body.token_index)
                                                    .token_type # "TT_RBRACKET"
                                        THEN Parsed(ParseResultFailure(registered,
                                                        ExpectedRBracket),
                                                    body.token_index)
                                        ELSE IF ~HasNode(body.pr.node) THEN ParserPanic
                                        ELSE Parsed(ParseResultSuccess(
                                                        RegisterAdvancement(registered),
                                                        Loop(body.pr.node)),
                                                    body.token_index + 1)
                                StatementBody(body) ==
                                    LET registered == ParseRegister(opened, body.pr)
                                    IN  IF body.panic THEN ParserPanic
                                        ELSE IF IsSome(registered.error)
                                        THEN Parsed(registered, body.token_index)
                                        ELSE IF ~HasNode(body.pr.node) THEN ParserPanic
                                        ELSE Parsed(ParseResultSuccess(registered,
                                                        Loop(body.pr.node)),
                                                    body.token_index)
                            IN  IF CurrentToken(tokens, k).token_type # "TT_LBRACKET"
                                THEN Parsed(ParseResultFailure(skipped.pr, ExpectedLBracket),
                                            k)
                                ELSE IF CurrentToken(tokens, k + 1).token_type = "TT_NEWLINE"
                                THEN BlockBody(Rule("statements", tokens, k + 2))
                                ELSE StatementBody(Rule("statement", tokens, k + 1))
                        Step(step_value) ==
                            LET stepped ==
                                    ParseRegister(
                                        RegisterAdvancement(RegisterAdvancement(ended)),
                                        step_value.pr)
                            IN  IF step_value.panic THEN ParserPanic
                                ELSE IF IsSome(stepped.error)
                                THEN Parsed(stepped, step_value.token_index)
                                ELSE Braces(stepped, step_value.token_index,
                                            step_value.pr.node)
                    IN  IF end_value.panic THEN ParserPanic
                        ELSE IF IsSome(ended.error) THEN Parsed(ended, end_value.token_index)
                        ELSE IF CurrentToken(tokens, end_value.token_index)
                                    = Token("TT_KEYWORD", "step")
                        THEN IF CurrentToken(tokens, end_value.token_index + 1).token_type
                                    # "TT_EQ"
                             THEN Parsed(ParseResultFailure(RegisterAdvancement(ended),
                                             StandardError("expected '='",
                                                 Some("add an '=' to set the step amount"))),
                                         end_value.token_index + 1)
                             ELSE Step(Rule("expr", tokens, end_value.token_index + 2))
                        ELSE Braces(ended, end_value.token_index, NoNode)
            IN  IF start_value.panic THEN ParserPanic
                ELSE IF IsSome(started.error) THEN Parsed(started, start_value.token_index)
                ELSE IF CurrentToken(tokens, start_value.token_index)
                            # Token("TT_KEYWORD", "through")
                THEN Parsed(ParseResultFailure(started,
                                StandardError("expected 'through'",
                                    Some("add the 'through' keyword to define a range 'n through n'"))),
                            start_value.token_index)
                ELSE End(Rule("expr", tokens, start_value.token_index + 1))
    IN  IF CurrentToken(tokens, i) # Token("TT_KEYWORD", "walk")
        THEN Parsed(ParseResultFailure(ParseResultNew,
                        StandardError("expected keyword",
                            Some("add the 'walk' keyword to represent a for loop"))),
                    i)
        ELSE IF var_name.token_type # "TT_IDENTIFIER"
        THEN Parsed(ParseResultFailure(RegisterAdvancement(ParseResultNew),
                        StandardError("expected identifier",
                            Some("add an object name like 'i' to represent a for loop's iterator"))),
                    i + 1)
        ELSE IF CurrentToken(tokens, i + 2).token_type # "TT_EQ"
        THEN Parsed(ParseResultFailure(named,
                        StandardError("expected '='",
                            Some("add an '=' to set the value of the variable '"
                                 \o var_name.value \o "'"))),
                    i + 2)
        ELSE Start(Rule("expr", tokens, i + 3))

while_expr(tokens, i) ==
    LET Condition(condition) ==
            LET registered == ParseRegister(RegisterAdvancement(ParseResultNew),
                                            condition.pr)
                skipped == skip_separators(tokens, condition.token_index, registered)
                j == skipped.token_index
                Body(body) ==
                    LET parse_result == ParseRegister(RegisterAdvancement(skipped.pr),
                                                      body.pr)
                    IN  IF body.panic THEN ParserPanic
                        ELSE IF IsSome(parse_result.error)
                        THEN Parsed(parse_result, body.token_index)
                        ELSE IF CurrentToken(tokens, body.token_index).token_type
                                    # "TT_RBRACKET"
                        THEN Parsed(ParseResultFailure(parse_result, ExpectedRBracket),
                                    body.token_index)
                        ELSE IF ~HasNode(condition.pr.node) \/ ~HasNode(body.pr.node)
                        THEN ParserPanic
                        ELSE Parsed(ParseResultSuccess(RegisterAdvancement(parse_result),
                                        WhileNode(condition.pr.node, body.pr.node)),
                                    body.token_index + 1)
            IN  IF condition.panic THEN ParserPanic
                ELSE IF IsSome(registered.error)
                THEN Parsed(registered, condition.token_index)
                ELSE IF CurrentToken(tokens, j).token_type # "TT_LBRACKET"
                THEN Parsed(ParseResultFailure(skipped.pr, ExpectedLBracket), j)
                ELSE Body(Rule("statements", tokens, j + 1))
    IN  IF CurrentToken(tokens, i) # Token("TT_KEYWORD", "while")
        THEN Parsed(ParseResultFailure(ParseResultNew,
                        StandardError("expected keyword",
                            Some("add the 'while' keyword to represent a while loop"))),
                    i)
        ELSE Condition(Rule("expr", tokens, i + 1))

\* the while loop of func_definition over the argument names after a comma
FuncArgNames(tokens, i, parse_result, arg_name_tokens) ==
    IF CurrentToken(tokens, i).token_type # "TT_COMMA"
    THEN [failed |-> FALSE, pr |-> parse_result, token_index |-> i,
          arg_name_tokens |-> arg_name_tokens]
    ELSE IF CurrentToken(tokens, i + 1).token_type # "TT_IDENTIFIER"
    THEN [failed |-> TRUE,
          pr |-> ParseResultFailure(RegisterAdvancement(parse_result),
                     StandardError("expected identifier",
                         Some("add a name for the function arguments like 'name'"))),
          token_index |-> i + 1, arg_name_tokens |-> arg_name_tokens]
    ELSE FuncArgNames(tokens, i + 2,
                      RegisterAdvancement(RegisterAdvancement(parse_result)),
                      Append(arg_name_tokens, CurrentToken(tokens, i + 1).value))

func_definition(tokens, i) ==
    LET is_named == CurrentToken(tokens, i + 1).token_type = "TT_IDENTIFIER"
        var_name == IF is_named THEN CurrentToken(tokens, i + 1).value ELSE NoneV
        \* the position of the '(' and the result that counts the tokens before it
        p == IF is_named THEN i + 2 ELSE i + 1
        before == IF is_named THEN RegisterAdvancement(RegisterAdvancement(ParseResultNew))
                  ELSE RegisterAdvancement(ParseResultNew)
        opened == RegisterAdvancement(before)
        first_is_name == CurrentToken(tokens, p + 1).token_type = "TT_IDENTIFIER"
        names == IF first_is_name
                 THEN FuncArgNames(tokens, p + 2, RegisterAdvancement(opened),
                                   <<CurrentToken(tokens, p + 1).value>>)
                 ELSE [failed |-> FALSE, pr |-> opened, token_index |-> p + 1,
                       arg_name_tokens |-> <<>>]
        skipped == skip_separators(tokens, names.token_index + 1,
                                   RegisterAdvancement(names.pr))
        j == skipped.token_index
        Body(body) ==
            LET parse_result == ParseRegister(RegisterAdvancement(skipped.pr), body.pr)
            IN  IF body.panic THEN ParserPanic
                ELSE IF IsSome(parse_result.error) THEN Parsed(parse_result, body.token_index)
                ELSE IF CurrentToken(tokens, body.token_index).token_type # "TT_RBRACKET"
                THEN Parsed(ParseResultFailure(parse_result, ExpectedRBracket),
                            body.token_index)
                ELSE IF ~HasNode(body.pr.node) THEN ParserPanic
                ELSE Parsed(ParseResultSuccess(RegisterAdvancement(parse_result),
                                FunctionDefinitionNode(var_name, names.arg_name_tokens,
                                                       body.pr.node, FALSE)),
                            body.token_index + 1)
    IN  IF CurrentToken(tokens, i) # Token("TT_KEYWORD", "func")
        THEN Parsed(ParseResultFailure(ParseResultNew,
                        StandardError("expected keyword",
                            Some("add the 'func' keyword to define a function"))),
                    i)
        ELSE IF CurrentToken(tokens, p).token_type # "TT_LPAREN"
        THEN Parsed(ParseResultFailure(before,
                        IF is_named
                        THEN StandardError("expected '('",
                                 Some("add a '(' to define the function arguments"))
                        ELSE StandardError("expected identifier or '('",
                                 Some("add a name for this function like 'greet' or use '(' to define an anonymous function"))),
                    p)
        ELSE IF names.failed THEN Parsed(names.pr, names.token_index)
        ELSE IF CurrentToken(tokens, names.token_index).token_type # "TT_RPAREN"
        THEN Parsed(ParseResultFailure(names.pr,
                        IF first_is_name
                        THEN StandardError("expected comma or ')'",
                                 Some("add a ',' followed by the function argument or complete the function with ')'"))
                        ELSE StandardError("expected indentifier or ')'",
                                 Some("add a name for the function arguments like 'name' or complete the function with ')'"))),
                    names.token_index)
        ELSE IF CurrentToken(tokens, j).token_type # "TT_LBRACKET"
        THEN Parsed(ParseResultFailure(skipped.pr,
                        StandardError("expected '{'",
                            Some("add a '{' to define the body of the function"))),
                    j)
        ELSE Body(Rule("statements", tokens, j + 1))


atom(tokens, i) ==
    LET token == CurrentToken(tokens, i)
        advanced == RegisterAdvancement(ParseResultNew)
        Parenthesized(inner) ==
            LET parse_result == ParseRegister(advanced, inner.pr)
            IN  IF inner.panic THEN ParserPanic
                ELSE IF IsSome(parse_result.error)
                THEN Parsed(parse_result, inner.token_index)
                ELSE IF CurrentToken(tokens, inner.token_index).token_type = "TT_RPAREN"
                THEN Parsed(ParseResultSuccess(RegisterAdvancement(parse_result),
                                               inner.pr.node),
                            inner.token_index + 1)
                ELSE Parsed(ParseResultFailure(parse_result,
                               StandardError("expected closing parenthesis",
                                             Some("add a ')' to close the original '('"))),
                            inner.token_index)
        \* the alternatives that register the result of one other rule
        Registered(inner) ==
            LET parse_result == ParseRegister(ParseResultNew, inner.pr)
            IN  IF inner.panic THEN ParserPanic
                ELSE IF IsSome(parse_result.error)
                THEN Parsed(parse_result, inner.token_index)
                ELSE Parsed(ParseResultSuccess(parse_result, inner.pr.node),
                            inner.token_index)
    IN  IF token.token_type = "TT_INT"
        THEN Parsed(ParseResultSuccess(advanced, NumberNode(token.value)), i + 1)
        ELSE IF token.token_type = "TT_IDENTIFIER"
        THEN Parsed(ParseResultSuccess(advanced, VariableAccessNode(token.value)), i + 1)
        ELSE IF token.token_type = "TT_LPAREN"
        THEN Parenthesized(Rule("expr", tokens, i + 1))
        ELSE IF token = Token("TT_KEYWORD", "if") THEN Registered(Rule("if_expr", tokens, i))
        ELSE IF token = Token("TT_KEYWORD", "walk") THEN Registered(Rule("for_expr", tokens, i))
        ELSE IF token = Token("TT_KEYWORD", "while") THEN Registered(Rule("while_expr", tokens, i))
        ELSE IF token = Token("TT_KEYWORD", "func")
        THEN Registered(Rule("func_definition", tokens, i))
        ELSE Parsed(ParseResultFailure(ParseResultNew,
                        StandardError("expected object, keyword, function, or expression",
                                      NoneV)),
                    i)

\* the while loop of call over the arguments that follow a comma
CallArguments(tokens, i, parse_result, callee, arg_nodes) ==
    LET PushArgument(argument) ==
            LET registered == ParseRegister(RegisterAdvancement(parse_result), argument.pr)
            IN  IF argument.panic THEN ParserPanic
                ELSE IF ~HasNode(argument.pr.node) THEN ParserPanic
                ELSE IF IsSome(registered.error)
                THEN Parsed(registered, argument.token_index)
                ELSE CallArguments(tokens, argument.token_index, registered, callee,
                                   Append(arg_nodes, argument.pr.node))
    IN  IF CurrentToken(tokens, i).token_type = "TT_COMMA"
        THEN PushArgument(Rule("expr", tokens, i + 1))
        ELSE IF CurrentToken(tokens, i).token_type # "TT_RPAREN"
        THEN Parsed(ParseResultFailure(parse_result,
                        StandardError("expected ',' or ')'",
                            Some("add a ',' to input all the function arguments or close with a ')' to call the function"))),
                    i)
        ELSE Parsed(ParseResultSuccess(RegisterAdvancement(parse_result),
                                       CallNode(callee, arg_nodes)),
                    i + 1)

call(tokens, i) ==
    LET Called(callee) ==
            LET parse_result == ParseRegister(ParseResultNew, callee.pr)
                opened == RegisterAdvancement(parse_result)
                j == callee.token_index + 1
                FirstArgument(first) ==
                    LET registered == ParseRegister(opened, first.pr)
                    IN  IF first.panic THEN ParserPanic
                        ELSE IF IsSome(registered.error)
                        THEN Parsed(ParseResultFailure(registered, ExpectedExpression),
                                    first.token_index)
                        ELSE IF ~HasNode(first.pr.node) THEN ParserPanic
                        ELSE CallArguments(tokens, first.token_index, registered,
                                           callee.pr.node, <<first.pr.node>>)
            IN  IF callee.panic THEN ParserPanic
                ELSE IF IsSome(parse_result.error)
                THEN Parsed(parse_result, callee.token_index)
                ELSE IF CurrentToken(tokens, callee.token_index).token_type = "TT_LPAREN"
                THEN IF CurrentToken(tokens, j).token_type = "TT_RPAREN"
                     THEN IF ~HasNode(callee.pr.node) THEN ParserPanic
                          ELSE Parsed(ParseResultSuccess(RegisterAdvancement(opened),
                                                         CallNode(callee.pr.node, <<>>)),
                                      j + 1)
                     ELSE FirstArgument(Rule("expr", tokens, j))
                ELSE Parsed(ParseResultSuccess(parse_result, callee.pr.node),
                            callee.token_index)
    IN  Called(Rule("atom", tokens, i))

\* a call of a rule of the parser by its name, as in the match on func_a
\* and func_b in binary_operator
Rule(name, tokens, i) ==
    CASE name = "statements" -> statements(tokens, i)
      [] name = "statement" -> statement(tokens, i)
      [] name = "expr" -> expr(tokens, i)
      [] name = "comparison_expr" -> comparison_expr(tokens, i)
      [] name = "arithmetic_expr" ->
            binary_operator(tokens, i, "term", {<<"TT_PLUS", "">>, <<"TT_MINUS", "">>}, "term")
      [] name = "term" ->
            binary_operator(tokens, i, "factor",
                            {<<"TT_MUL", "">>, <<"TT_DIV", "">>, <<"TT_MOD", "">>}, "factor")
      [] name = "factor" -> factor(tokens, i)
      [] name = "call" -> call(tokens, i)
      [] name = "atom" -> atom(tokens, i)
      [] name = "if_expr" -> if_expr(tokens, i)
      [] name = "if_expr_b_or_c" -> if_expr_b_or_c(tokens, i)
      [] name = "if_expr_c" -> if_expr_c(tokens, i)
      [] name = "for_expr" -> for_expr(tokens, i)
      [] name = "while_expr" -> while_expr(tokens, i)
      [] name = "func_definition" -> func_definition(tokens, i)
      [] OTHER -> ParserPanic

\* the while loop of binary_operator
BinaryOperatorLoop(tokens, i, parse_result, left, ops, func_b) ==
    LET op_token == CurrentToken(tokens, i)
        Combine(right) ==
            LET registered == ParseRegister(RegisterAdvancement(parse_result), right.pr)
            IN  IF right.panic THEN ParserPanic
                ELSE IF IsSome(registered.error) THEN Parsed(registered, right.token_index)
                ELSE IF ~HasNode(left) \/ ~HasNode(right.pr.node) THEN ParserPanic
                ELSE BinaryOperatorLoop(tokens, right.token_index, registered,
                         BinaryOperatorNode(left, op_token.token_type, right.pr.node),
                         ops, func_b)
    IN  IF <<op_token.token_type, op_token.value>> \in ops
           \/ <<op_token.token_type, "">> \in ops
        THEN Combine(Rule(func_b, tokens, i + 1))
        ELSE Parsed(ParseResultSuccess(parse_result, left), i)

binary_operator(tokens, i, func_a, ops, func_b) ==
    LET Operators(left) ==
            LET parse_result == ParseRegister(ParseResultNew, left.pr)
            IN  IF left.panic THEN ParserPanic
                ELSE IF IsSome(parse_result.error) THEN Parsed(parse_result, left.token_index)
                ELSE BinaryOperatorLoop(tokens, left.token_index, parse_result,
                                        left.pr.node, ops, func_b)
    IN  Operators(Rule(func_a, tokens, i))

\* factor with a power whose right operand is a call: a left-associative ^
factorLeftPower(tokens, i) ==
    LET token == CurrentToken(tokens, i)
        Signed(operand) ==
            LET parse_result == ParseRegister(RegisterAdvancement(ParseResultNew),
                                              operand.pr)
            IN  IF operand.panic THEN ParserPanic
                ELSE IF IsSome(parse_result.error)
                THEN Parsed(parse_result, operand.token_index)
                ELSE IF ~HasNode(operand.pr.node) THEN ParserPanic
                ELSE Parsed(ParseResultSuccess(parse_result,
                                UnaryOperatorNode(token.token_type, operand.pr.node)),
                            operand.token_index)
    IN  IF token.token_type \in {"TT_PLUS", "TT_MINUS"}
        THEN Signed(Rule("factor", tokens, i + 1))
        ELSE binary_operator(tokens, i, "call", {<<"TT_POW", "">>}, "call")

\* power is binary_operator("call", [TT_POW], "factor")
factor(tokens, i) ==
    LET token == CurrentToken(tokens, i)
        Signed(operand) ==
            LET parse_result == ParseRegister(RegisterAdvancement(ParseResultNew),
                                              operand.pr)
            IN  IF operand.panic THEN ParserPanic
                ELSE IF IsSome(parse_result.error)
                THEN Parsed(parse_result, operand.token_index)
                ELSE IF ~HasNode(operand.pr.node) THEN ParserPanic
                ELSE Parsed(ParseResultSuccess(parse_result,
                                UnaryOperatorNode(token.token_type, operand.pr.node)),
                            operand.token_index)
    IN  IF token.token_type \in {"TT_PLUS", "TT_MINUS"}
        THEN Signed(Rule("factor", tokens, i + 1))
        ELSE binary_operator(tokens, i, "call", {<<"TT_POW", "">>}, "factor")

comparison_expr(tokens, i) ==
    LET Negated(operand) ==
            LET parse_result == ParseRegister(RegisterAdvancement(ParseResultNew),
                                              operand.pr)
            IN  IF operand.panic THEN ParserPanic
                ELSE IF ~HasNode(operand.pr.node) THEN ParserPanic
                ELSE IF IsSome(parse_result.error)
                THEN Parsed(parse_result, operand.token_index)
                ELSE Parsed(ParseResultSuccess(parse_result,
                                UnaryOperatorNode("not", operand.pr.node)),
                            operand.token_index)
        Compared(compared) ==
            LET parse_result == ParseRegister(ParseResultNew, compared.pr)
            IN  IF compared.panic THEN ParserPanic
                ELSE IF IsSome(parse_result.error)
                THEN Parsed(ParseResultFailure(parse_result,
                                StandardError("expected an object or operator",
                                    Some("add one of the following: integer, float, identifier, 'not', '+', '-', '(', or '['"))),
                            compared.token_index)
                ELSE Parsed(ParseResultSuccess(parse_result, compared.pr.node),
                            compared.token_index)
    IN  IF CurrentToken(tokens, i) = Token("TT_KEYWORD", "not")
        THEN Negated(Rule("comparison_expr", tokens, i + 1))
        ELSE Compared(binary_operator(tokens, i, "arithmetic_expr",
                      {<<"TT_EE", "">>, <<"TT_NE", "">>, <<"TT_LT", "">>, <<"TT_GT", "">>,
                       <<"TT_LTE", "">>, <<"TT_GTE", "">>}, "arithmetic_expr"))

\* the rule of expr that does not start with obj or stay
expr(tokens, i) ==
    LET Combined(combined) ==
            LET parse_result == ParseRegister(ParseResultNew, combined.pr)
            IN  IF combined.panic THEN ParserPanic
                ELSE IF IsSome(parse_result.error)
                THEN Parsed(ParseResultFailure(parse_result, ExpectedExpression),
                            combined.token_index)
                ELSE Parsed(ParseResultSuccess(parse_result, combined.pr.node),
                            combined.token_index)
    IN  Combined(binary_operator(tokens, i, "comparison_expr",
                 {<<"TT_KEYWORD", "and">>, <<"TT_KEYWORD", "or">>}, "comparison_expr"))

\* statement: give with or without expression, next, leave, or an expression
statement(tokens, i) ==
    LET token == CurrentToken(tokens, i)
        advanced == RegisterAdvancement(ParseResultNew)
        \* try_register, then reverse(to_reverse_count) when it handed back None
        Given(value) ==
            IF value.panic THEN ParserPanic
            ELSE IF IsSome(value.pr.error)
            THEN Parsed(ParseResultSuccess(TryRegisterFailed(advanced, value.pr),
                                           ReturnNode(NoNode)),
                        value.token_index - value.pr.advance_count)
            ELSE Parsed(ParseResultSuccess(ParseRegister(advanced, value.pr),
                                           ReturnNode(value.pr.node)),
                        value.token_index)
        Expression(value) ==
            LET parse_result == ParseRegister(ParseResultNew, value.pr)
            IN  IF value.panic THEN ParserPanic
                ELSE IF IsSome(parse_result.error)
                THEN Parsed(ParseResultFailure(parse_result, ExpectedExpression),
                            value.token_index)
                ELSE Parsed(ParseResultSuccess(parse_result, value.pr.node),
                            value.token_index)
    IN  IF token = Token("TT_KEYWORD", "give") THEN Given(Rule("expr", tokens, i + 1))
        ELSE IF token = Token("TT_KEYWORD", "next")
        THEN Parsed(ParseResultSuccess(advanced, ContinueNode), i + 1)
        ELSE IF token = Token("TT_KEYWORD", "leave")
        THEN Parsed(ParseResultSuccess(advanced, BreakNode), i + 1)
        ELSE Expression(Rule("expr", tokens, i))

\* the loops of statements over TT_NEWLINE
RECURSIVE SkipNewlines(_, _, _)
SkipNewlines(tokens, i, parse_result) ==
    IF CurrentToken(tokens, i).token_type = "TT_NEWLINE"
    THEN SkipNewlines(tokens, i + 1, RegisterAdvancement(parse_result))
    ELSE [pr |-> parse_result, token_index |-> i]

\* the loop of statements over the statements after the first
RECURSIVE MoreStatements(_, _, _, _)
MoreStatements(tokens, i, parse_result, nodes) ==
    LET Skipped(skipped) ==
            LET j == skipped.token_index
                Following(next) ==
                    LET registered == ParseRegister(skipped.pr, next.pr)
                    IN  IF next.panic THEN ParserPanic
                        ELSE IF IsSome(registered.error)
                        THEN Parsed(registered, next.token_index)
                        ELSE IF ~HasNode(next.pr.node) THEN ParserPanic
                        ELSE MoreStatements(tokens, next.token_index, registered,
                                            Append(nodes, next.pr.node))
            IN  IF j = i \/ CurrentToken(tokens, j).token_type \in {"TT_EOF", "TT_RBRACKET"}
                THEN Parsed(ParseResultSuccess(skipped.pr, ListNode(nodes)), j)
                ELSE Following(Rule("statement", tokens, j))
    IN  Skipped(SkipNewlines(tokens, i, parse_result))

statements(tokens, i) ==
    LET Skipped(skipped) ==
            LET j == skipped.token_index
                First(first) ==
                    LET registered == ParseRegister(skipped.pr, first.pr)
                    IN  IF first.panic THEN ParserPanic
                        ELSE IF IsSome(registered.error)
                        THEN Parsed(registered, first.token_index)
                        ELSE IF ~HasNode(first.pr.node) THEN ParserPanic
                        ELSE IF CurrentToken(tokens, first.token_index).token_type
                                    \notin {"TT_NEWLINE", "TT_RBRACKET", "TT_SEMI", "TT_EOF"}
                        THEN Parsed(ParseResultFailure(registered,
                                        StandardError("expected newline or statement separator",
                                            Some("add a newline or semicolon between statements"))),
                                    first.token_index)
                        ELSE MoreStatements(tokens, first.token_index, registered,
                                            <<first.pr.node>>)
            IN  IF CurrentToken(tokens, j).token_type = "TT_EOF"
                THEN Parsed(ParseResultSuccess(skipped.pr, ListNode(<<>>)), j)
                ELSE First(Rule("statement", tokens, j))
    IN  Skipped(SkipNewlines(tokens, i, ParseResultNew))

\* Parser::new, then Parser::parse
parse(tokens) ==
    LET Finish(all) ==
            IF all.panic THEN ParserPanic
            ELSE IF IsSome(all.pr.error)
                    /\ CurrentToken(tokens, all.token_index).token_type # "TT_EOF"
            THEN Parsed(ParseResultFailure(all.pr,
                            StandardError("expected operator or bracket",
                                Some("add one of the following: '+', '-', '*', '/', or '}'"))),
                        all.token_index)
            ELSE all
    IN  Finish(Rule("statements", tokens, 1))

(***************************************************************************)
(* The token lists that are parsed: every list of up to MaxTokens tokens   *)
(* of TokenAlphabet, every list of up to MaxTokens operands and arithmetic *)
(* operators, and the texts, whole or cut short, of a conditional, a       *)
(* loop or a function definition with its body and what follows it.        *)
(***************************************************************************)
Keyword(value) == Token("TT_KEYWORD", value)
Symbol(token_type) == Token(token_type, "")
Name == Token("TT_IDENTIFIER", "f")
One == Token("TT_INT", "1")

OperatorAlphabet ==
    {Name, One, Symbol("TT_PLUS"), Symbol("TT_MINUS"), Symbol("TT_MUL"), Symbol("TT_POW")}

BlockHeaders ==
    {<<Keyword("if"), Name>>, <<Keyword("while"), Name>>,
     <<Keyword("func"), Name, Symbol("TT_LPAREN"), Symbol("TT_RPAREN")>>,
     <<Keyword("walk"), Name, Symbol("TT_EQ"), One, Keyword("through"), One>>}

BlockBodies ==
    {<<>>, <<Name>>, <<Name, Symbol("TT_NEWLINE")>>, <<Keyword("give")>>,
     <<Keyword("leave")>>}

BlockTails ==
    {<<>>, <<Symbol("TT_NEWLINE")>>, <<Symbol("TT_NEWLINE"), Name>>,
     <<Symbol("TT_RBRACKET")>>, <<Symbol("TT_PLUS")>>,
     <<Keyword("otherwise"), One>>,
     <<Keyword("otherwise"), Symbol("TT_LBRACKET"), One, Symbol("TT_RBRACKET")>>,
     <<Keyword("alsoif"), One, Symbol("TT_LBRACKET"), Symbol("TT_RBRACKET")>>,
     <<Keyword("alsoif"), One, Symbol("TT_LBRACKET"), One, Symbol("TT_RBRACKET"),
       Keyword("otherwise")>>}

BlockTexts ==
    {lead \o header \o open \o body \o <<Symbol("TT_RBRACKET")>> \o tail :
        lead \in {<<>>, <<Keyword("give")>>},
        header \in BlockHeaders,
        open \in {<<Symbol("TT_LBRACKET")>>,
                  <<Symbol("TT_LBRACKET"), Symbol("TT_NEWLINE")>>},
        body \in BlockBodies,
        tail \in BlockTails}

Prefixes(text) == {SubSeq(text, 1, n) : n \in 0..Len(text)}

BlockInputs == UNION {Prefixes(text) : text \in BlockTexts}

AllTokens ==
    TokenAlphabet \cup OperatorAlphabet
    \cup UNION {{text[k] : k \in DOMAIN text} : text \in BlockTexts}

IsInput(tokens) ==
    \/ /\ Len(tokens) <= MaxTokens
       /\ \A k \in DOMAIN tokens : tokens[k] \in TokenAlphabet
       /\ Cardinality({k \in DOMAIN tokens : tokens[k].token_type = "TT_LPAREN"})
              <= MaxNesting
    \/ /\ Len(tokens) <= MaxTokens
       /\ \A k \in DOMAIN tokens : tokens[k] \in OperatorAlphabet
    \/ tokens \in BlockInputs

\* Parser::new on the tokens made so far: Lexer::make_tokens has made none
ParseInit ==
    /\ prog = [k |-> "Tokens", tokens |-> <<>>, token_index |-> 1, rule |-> "none"]
    /\ tables = <<>>
    /\ contexts = <<>>
    /\ stack = <<>>
    /\ ret = NoRet
    /\ status = "running"
    /\ out = <<>>
    /\ steps = 0

\* Lexer::make_tokens pushes one more token
make_tokens ==
    /\ status = "running" /\ prog.k = "Tokens"
    /\ \E token \in AllTokens :
           /\ IsInput(Append(prog.tokens, token))
           /\ prog' = [prog EXCEPT !.tokens = Append(@, token)]
    /\ UNCHANGED <<tables, contexts, stack, ret, status, out, steps>>

\* the end of a call of a rule: the ParseResult it returned and the
\* token_index of the parser
RuleReturns(rule, parsed) ==
    IF parsed.panic
    THEN /\ status' = "panic"
         /\ prog' = [prog EXCEPT !.tokens = Append(@, TT_EOF), !.rule = rule]
         /\ UNCHANGED ret
    ELSE /\ status' = "done"
         /\ prog' = [prog EXCEPT !.tokens = Append(@, TT_EOF), !.rule = rule,
                                 !.token_index = parsed.token_index]
         /\ ret' = parsed.pr

\* Lexer::make_tokens pushes TT_EOF and returns, and the tokens are parsed
ApplyParse ==
    /\ status = "running" /\ prog.k = "Tokens"
    /\ RuleReturns("parse", parse(Append(prog.tokens, TT_EOF)))
    /\ steps' = steps + 1
    /\ UNCHANGED <<tables, contexts, stack, out>>

\* the same, and Parser::statement is called on the new parser
ApplyStatement ==
    /\ status = "running" /\ prog.k = "Tokens"
    /\ RuleReturns("statement", statement(Append(prog.tokens, TT_EOF), 1))
    /\ steps' = steps + 1
    /\ UNCHANGED <<tables, contexts, stack, out>>

ParseNext ==
    \/ make_tokens
    \/ ApplyParse
    \/ ApplyStatement

ParseSpec == ParseInit /\ [][ParseNext]_vars

\* C20: for every token list, parse returns a root node and no diagnostic, or
\* a diagnostic; it never panics.
C20_ParseNeverCrashes ==
    /\ (prog.k = "Tokens" /\ prog.rule = "parse") => status # "panic"
    /\ (status = "done" /\ prog.k = "Tokens" /\ prog.rule = "parse") =>
          \/ HasNode(ret.node) /\ IsNone(ret.error)
          \/ IsSome(ret.error)
\* the states in which a rule has returned a ParseResult
ParseReturned == status = "done" /\ prog.k = "Tokens" /\ prog.rule = "parse"
StatementReturned == status = "done" /\ prog.k = "Tokens" /\ prog.rule = "statement"

\* if f { }, while f { }, func f() { }, also with a newline in the braces
EmptyBlocks ==
    {header \o open \o <<Symbol("TT_RBRACKET"), TT_EOF>> :
        header \in BlockHeaders \ {<<Keyword("walk"), Name, Symbol("TT_EQ"), One,
                                     Keyword("through"), One>>},
        open \in {<<Symbol("TT_LBRACKET")>>,
                  <<Symbol("TT_LBRACKET"), Symbol("TT_NEWLINE")>>}}

BodyOf(node) ==
    IF node.k = "If" THEN node.cases[1].expr ELSE node.body_node

\* C21: a block whose braces enclose no statement parses without a
\* diagnostic to the conditional, loop or function with an empty statement
\* list for body, as the empty program parses to the empty statement list.
C21_EmptyBlockParses ==
    /\ (ParseReturned /\ prog.tokens = <<TT_EOF>>) =>
          IsNone(ret.error) /\ ret.node = ListNode(<<>>)
    /\ (ParseReturned /\ prog.tokens \in EmptyBlocks) =>
          /\ IsNone(ret.error)
          /\ ret.node.k = "List" /\ Len(ret.node.element_nodes) = 1
          /\ ret.node.element_nodes[1].k \in {"If", "While", "FunctionDefinition"}
          /\ BodyOf(ret.node.element_nodes[1]) = ListNode(<<>>)

\* walk f = 1 through 1 { body } and a statement on the next line
WalkHeader == <<Keyword("walk"), Name, Symbol("TT_EQ"), One, Keyword("through"), One>>

WalkTexts ==
    {WalkHeader \o open \o body \o <<Symbol("TT_RBRACKET")>> :
        open \in {<<Symbol("TT_LBRACKET")>>,
                  <<Symbol("TT_LBRACKET"), Symbol("TT_NEWLINE")>>},
        body \in BlockBodies \ {<<>>}}

\* C25: the statement of a counted loop with a body in braces leaves the
\* cursor on the token after the closing brace, with or without a newline
\* after the opening brace, and a statement on the line after the loop is
\* the second statement of the program.
C25_WalkEndsAfterBrace ==
    /\ (StatementReturned /\ prog.tokens \in {text \o <<TT_EOF>> : text \in WalkTexts}) =>
          /\ IsNone(ret.error) /\ ret.node.k = "For"
          /\ prog.token_index = Len(prog.tokens)
    /\ (ParseReturned
          /\ prog.tokens \in {text \o <<Symbol("TT_NEWLINE"), Name, TT_EOF>> :
                                 text \in WalkTexts}) =>
          /\ IsNone(ret.error)
          /\ ret.node.k = "List" /\ Len(ret.node.element_nodes) = 2
          /\ ret.node.element_nodes[1].k = "For"
          /\ ret.node.element_nodes[2] = VariableAccessNode("f")

\* C26: when parse returns a node and no diagnostic, the cursor is on the
\* end-of-input token: every token before it was consumed.
C26_ParseConsumesAllTokens ==
    (ParseReturned /\ IsNone(ret.error)) =>
        /\ HasNode(ret.node)
        /\ prog.token_index = Len(prog.tokens)

\* the expression after a leading give does not parse
GiveExprFails ==
    /\ prog.tokens[1] = Keyword("give")
    /\ LET value == expr(prog.tokens, 2)
       IN  ~value.panic /\ IsSome(value.pr.error)

\* C27: when the expression after give does not parse, the statement is a
\* Return node without expression and without diagnostic, and the cursor
\* is on the token after give, however many tokens the expression consumed.
C27_GiveRewindsToGive ==
    (StatementReturned /\ GiveExprFails) =>
        /\ IsNone(ret.error)
        /\ ret.node = ReturnNode(NoNode)
        /\ prog.token_index = 2
\* the node of an operand token
OperandNode(token) ==
    IF token.token_type = "TT_INT" THEN NumberNode(token.value)
    ELSE VariableAccessNode(token.value)

Operands == {Name, One}

\* the level of a binary operator: + and -, then *, then ^
Level(token_type) ==
    CASE token_type \in {"TT_PLUS", "TT_MINUS"} -> 1
      [] token_type = "TT_MUL" -> 2
      [] token_type = "TT_POW" -> 3

BinaryOperators == {"TT_PLUS", "TT_MINUS", "TT_MUL", "TT_POW"}

\* x op1 y op2 z groups to the right when op2 binds tighter or both are ^
GroupsRight(op1, op2) ==
    Level(op2) > Level(op1) \/ (op1 = "TT_POW" /\ op2 = "TT_POW")

\* C22: three operands joined by two binary operators parse to the tree
\* of the precedence + -, then *, then ^, left-associative except for ^,
\* and a sign before x ^ y applies to the whole power while a sign before
\* x * y or x + y applies to x alone.
C22_PrecedenceAndAssociativity ==
    /\ \A x \in Operands, y \in Operands, z \in Operands,
          op1 \in BinaryOperators, op2 \in BinaryOperators :
          (ParseReturned
             /\ prog.tokens = <<x, Symbol(op1), y, Symbol(op2), z, TT_EOF>>) =>
             /\ IsNone(ret.error)
             /\ ret.node = ListNode(<<
                  IF GroupsRight(op1, op2)
                  THEN BinaryOperatorNode(OperandNode(x), op1,
                           BinaryOperatorNode(OperandNode(y), op2, OperandNode(z)))
                  ELSE BinaryOperatorNode(
                           BinaryOperatorNode(OperandNode(x), op1, OperandNode(y)),
                           op2, OperandNode(z))>>)
    /\ \A x \in Operands, y \in Operands, sign \in {"TT_PLUS", "TT_MINUS"},
          op \in BinaryOperators :
          (ParseReturned
             /\ prog.tokens = <<Symbol(sign), x, Symbol(op), y, TT_EOF>>) =>
             /\ IsNone(ret.error)
             /\ ret.node = ListNode(<<
                  IF op = "TT_POW"
                  THEN UnaryOperatorNode(sign,
                           BinaryOperatorNode(OperandNode(x), op, OperandNode(y)))
                  ELSE BinaryOperatorNode(UnaryOperatorNode(sign, OperandNode(x)),
                                          op, OperandNode(y))>>)

\* f ^ 1 ^ f parsed to f ^ (1 ^ f)
C22_Witness ==
    /\ ParseReturned
    /\ prog.tokens = <<Name, Symbol("TT_POW"), One, Symbol("TT_POW"), Name, TT_EOF>>
    /\ ret.node = ListNode(<<BinaryOperatorNode(VariableAccessNode("f"), "TT_POW",
                      BinaryOperatorNode(NumberNode("1"), "TT_POW",
                                         VariableAccessNode("f")))>>)
(***************************************************************************)
(* The lexer: Lexer::new on a text of up to MaxChars characters, then one  *)
(* action for each arm of the match in the loop of Lexer::make_tokens.     *)
(* A text is a sequence of characters, a character a string of length 1.   *)
(***************************************************************************)
MaxChars == 3

CharAlphabet ==
    {" ", "#", "\n", ";", "\r", "1", ".", "o", "r", "e", "\"", "\\", "[", "-", ">",
     "=", "!", "<"}

Texts == UNION {[1..n -> CharAlphabet] : n \in 0..MaxChars}

DIGITS == {"0", "1", "2", "3", "4", "5", "6", "7", "8", "9"}

LETTERS ==
    {"a", "b", "c", "d", "e", "f", "g", "h", "i", "j", "k", "l", "m", "n", "o", "p",
     "q", "r", "s", "t", "u", "v", "w", "x", "y", "z", "A", "B", "C", "D", "E", "F",
     "G", "H", "I", "J", "K", "L", "M", "N", "O", "P", "Q", "R", "S", "T", "U", "V",
     "W", "X", "Y", "Z", "_"}

LETTERS_DIGITS == DIGITS \cup LETTERS

KEYWORDS ==
    {"obj", "stay", "and", "or", "not", "if", "alsoif", "otherwise", "walk",
     "through", "step", "while", "unsafe", "safe", "func", "fetch", "give", "next",
     "leave"}

\* stands for the character 0x1b
ESC == "<0x1b>"

\* the table of make_string
escape_chars ==
    [c \in {"r", "e", "n", "t", "\\", "\""} |->
        CASE c = "r" -> "\r"
          [] c = "e" -> ESC
          [] c = "n" -> "\n"
          [] c = "t" -> "\t"
          [] c = "\\" -> "\\"
          [] c = "\"" -> "\""]

\* the arms of make_tokens that push the token of one character
SingleCharTokens ==
    [c \in {"+", "*", "/", "^", "%", "(", ")", "[", "]", "{", "}", ","} |->
        CASE c = "+" -> "TT_PLUS"
          [] c = "*" -> "TT_MUL"
          [] c = "/" -> "TT_DIV"
          [] c = "^" -> "TT_POW"
          [] c = "%" -> "TT_MOD"
          [] c = "(" -> "TT_LPAREN"
          [] c = ")" -> "TT_RPAREN"
          [] c = "[" -> "TT_LSQUARE"
          [] c = "]" -> "TT_RSQUARE"
          [] c = "{" -> "TT_LBRACKET"
          [] c = "}" -> "TT_RBRACKET"
          [] c = "," -> "TT_COMMA"]

\* the characters that an arm before the last one matches
KnownChars ==
    {" ", "\t", "#", ";", "\n", "\"", "-", "!", "=", "<", ">"}
    \cup DIGITS \cup LETTERS \cup DOMAIN SingleCharTokens

RECURSIVE ReplaceCRLF(_)
\* text.replace("\r\n", "\n")
ReplaceCRLF(chars) ==
    IF chars = <<>> THEN <<>>
    ELSE IF Len(chars) >= 2 /\ chars[1] = "\r" /\ chars[2] = "\n"
    THEN <<"\n">> \o ReplaceCRLF(SubSeq(chars, 3, Len(chars)))
    ELSE <<chars[1]>> \o ReplaceCRLF(Tail(chars))

\* Lexer::advance sets current_char from position.index
current_char(chars, index) ==
    IF index >= 0 /\ index < Len(chars) THEN Some(chars[index + 1]) ELSE NoneV

\* what a make_ function hands back, and the position.index it leaves
Lexed(token, index) == [error |-> NoneV, token |-> token, index |-> index]
LexError(error, index) == [error |-> error, token |-> NoneV, index |-> index]

\* Result<Vec<Token>, StandardError>
Ok(tokens) == [k |-> "Ok", tokens |-> tokens]
Err(error) == [k |-> "Err", error |-> error]

RECURSIVE NumberLoop(_, _, _, _)
\* the while loop of make_number
NumberLoop(chars, index, num_str, dot_count) ==
    LET character == current_char(chars, index)
        stop == [error |-> NoneV, num_str |-> num_str, dot_count |-> dot_count,
                 index |-> index]
    IN  IF IsNone(character) THEN stop
        ELSE IF character.value \in DIGITS
        THEN NumberLoop(chars, index + 1, num_str \o character.value, dot_count)
        ELSE IF character.value = "."
        THEN IF dot_count = 1 THEN stop
             ELSE NumberLoop(chars, index + 1, num_str \o ".", dot_count + 1)
        ELSE IF character.value \in LETTERS
        THEN [stop EXCEPT !.error =
                 StandardError("object names cannot start with numerical values", NoneV)]
        ELSE stop

make_number(chars, index) ==
    LET scanned == NumberLoop(chars, index, "", 0)
    IN  IF IsSome(scanned.error) THEN LexError(scanned.error, scanned.index)
        ELSE Lexed(Token(IF scanned.dot_count = 0 THEN "TT_INT" ELSE "TT_FLOAT",
                         scanned.num_str),
                   scanned.index)

RECURSIVE IdentifierLoop(_, _, _)
\* the while loop of make_identifier
IdentifierLoop(chars, index, id_string) ==
    LET character == current_char(chars, index)
    IN  IF IsSome(character) /\ character.value \in LETTERS_DIGITS
        THEN IdentifierLoop(chars, index + 1, id_string \o character.value)
        ELSE [id_string |-> id_string, index |-> index]

make_identifier(chars, index) ==
    LET scanned == IdentifierLoop(chars, index, "")
    IN  Lexed(Token(IF scanned.id_string \in KEYWORDS THEN "TT_KEYWORD"
                    ELSE "TT_IDENTIFIER",
                    scanned.id_string),
              scanned.index)

RECURSIVE AnsiLoop(_, _, _)
\* the loop of make_string that copies an ANSI sequence up to its 'm'
AnsiLoop(chars, index, string) ==
    LET c == current_char(chars, index)
    IN  IF IsNone(c) THEN [string |-> string, index |-> index]
        ELSE IF c.value = "m" THEN [string |-> string \o "m", index |-> index + 1]
        ELSE AnsiLoop(chars, index + 1, string \o c.value)

RECURSIVE StringLoop(_, _, _, _)
\* the while loop of make_string
StringLoop(chars, index, string, escape_char) ==
    LET character == current_char(chars, index)
        stop == [error |-> NoneV, string |-> string, index |-> index]
    IN  IF IsNone(character) \/ (character.value = "\"" /\ ~escape_char) THEN stop
        ELSE IF escape_char
        THEN IF character.value = "e"
             THEN IF current_char(chars, index + 1) = Some("[")
                  THEN LET copied == AnsiLoop(chars, index + 2, string \o ESC \o "[")
                       IN  StringLoop(chars, copied.index, copied.string, FALSE)
                  ELSE [stop EXCEPT !.index = index + 1, !.error =
                           StandardError("invalid ANSI escape sequence (expected '[')",
                                         NoneV)]
             ELSE IF character.value \in DOMAIN escape_chars
             THEN StringLoop(chars, index + 1, string \o escape_chars[character.value],
                             FALSE)
             ELSE [stop EXCEPT !.error =
                      StandardError("invalid escape character", NoneV)]
        ELSE IF character.value = "\\"
        THEN StringLoop(chars, index + 1, string, TRUE)
        ELSE StringLoop(chars, index + 1, string \o character.value, FALSE)

make_string(chars, index) ==
    LET scanned == StringLoop(chars, index + 1, "", FALSE)
    IN  IF IsSome(scanned.error) THEN LexError(scanned.error, scanned.index)
        ELSE IF current_char(chars, scanned.index) # Some("\"")
        THEN LexError(StandardError("unfinished string",
                          Some("add a '\"' at the end of the string to close it")),
                      scanned.index)
        ELSE Lexed(Token("TT_STR", scanned.string), scanned.index + 1)

make_minus_or_arrow(chars, index) ==
    IF current_char(chars, index + 1) = Some(">")
    THEN Lexed(Token("TT_ARROW", ""), index + 2)
    ELSE Lexed(Token("TT_MINUS", ""), index + 1)

make_equals(chars, index) ==
    IF current_char(chars, index + 1) = Some("=")
    THEN Lexed(Token("TT_EE", ""), index + 2)
    ELSE Lexed(Token("TT_EQ", ""), index + 1)

make_not_equals(chars, index) ==
    IF current_char(chars, index + 1) = Some("=")
    THEN Lexed(Token("TT_NE", ""), index + 2)
    ELSE LexError(StandardError("expected '=' after '!'",
                      Some("add a '=' after the '!' character")),
                  index + 2)

make_less_than(chars, index) ==
    IF current_char(chars, index + 1) = Some("=")
    THEN Lexed(Token("TT_LTE", ""), index + 2)
    ELSE Lexed(Token("TT_LT", ""), index + 1)

make_greater_than(chars, index) ==
    IF current_char(chars, index + 1) = Some("=")
    THEN Lexed(Token("TT_GTE", ""), index + 2)
    ELSE Lexed(Token("TT_GT", ""), index + 1)

RECURSIVE skip_comment(_, _)
\* the position.index after skip_comment, called with the index after the '#'
skip_comment(chars, index) ==
    LET character == current_char(chars, index)
    IN  IF IsSome(character) /\ character.value # "\n"
        THEN skip_comment(chars, index + 1)
        ELSE index

\* Lexer::new: the text with its line ends replaced, and the first advance
LexInit ==
    /\ \E text \in Texts :
           prog = [k |-> "Text", chars |-> ReplaceCRLF(text), index |-> 0,
                   tokens |-> <<>>]
    /\ tables = <<>>
    /\ contexts = <<>>
    /\ stack = <<>>
    /\ ret = NoRet
    /\ status = "running"
    /\ out = <<>>
    /\ steps = 0

\* the loop of make_tokens is at its head on the character c
AtChar(c) ==
    /\ status = "running" /\ prog.k = "Text"
    /\ current_char(prog.chars, prog.index) = Some(c)

\* continue: nothing is pushed
Continue(index) ==
    /\ prog' = [prog EXCEPT !.index = index]
    /\ UNCHANGED <<tables, contexts, stack, ret, status, out, steps>>

\* the end of an arm: the token is pushed, or the error is returned and
\* the vector of tokens is dropped
Push(lexed) ==
    /\ IF IsSome(lexed.error)
       THEN /\ prog' = [prog EXCEPT !.index = lexed.index, !.tokens = <<>>]
            /\ ret' = Err(lexed.error)
            /\ status' = "done"
       ELSE /\ prog' = [prog EXCEPT !.index = lexed.index,
                                    !.tokens = Append(@, lexed.token)]
            /\ UNCHANGED <<ret, status>>
    /\ UNCHANGED <<tables, contexts, stack, out, steps>>

SkipBlank ==
    /\ \E c \in {" ", "\t"} : AtChar(c)
    /\ Continue(prog.index + 1)

SkipComment ==
    /\ AtChar("#")
    /\ Continue(skip_comment(prog.chars, prog.index + 1))

PushNewline ==
    /\ \E c \in {";", "\n"} : AtChar(c)
    /\ Push(Lexed(Token("TT_NEWLINE", ""), prog.index + 1))

PushNumber ==
    /\ \E c \in DIGITS : AtChar(c)
    /\ Push(make_number(prog.chars, prog.index))

PushIdentifier ==
    /\ \E c \in LETTERS : AtChar(c)
    /\ Push(make_identifier(prog.chars, prog.index))

PushString ==
    /\ AtChar("\"")
    /\ Push(make_string(prog.chars, prog.index))

PushSingleChar ==
    \E c \in DOMAIN SingleCharTokens :
        /\ AtChar(c)
        /\ Push(Lexed(Token(SingleCharTokens[c], ""), prog.index + 1))

PushMinusOrArrow ==
    /\ AtChar("-")
    /\ Push(make_minus_or_arrow(prog.chars, prog.index))

PushNotEquals ==
    /\ AtChar("!")
    /\ Push(make_not_equals(prog.chars, prog.index))

PushEquals ==
    /\ AtChar("=")
    /\ Push(make_equals(prog.chars, prog.index))

PushLessThan ==
    /\ AtChar("<")
    /\ Push(make_less_than(prog.chars, prog.index))

PushGreaterThan ==
    /\ AtChar(">")
    /\ Push(make_greater_than(prog.chars, prog.index))

\* the last arm
UnknownChar ==
    \E c \in CharAlphabet \ KnownChars :
        /\ AtChar(c)
        /\ Push(LexError(StandardError("unkown character '" \o c \o "'",
                             Some("replace this character with one known by maid")),
                         prog.index + 1))

\* the tokens are returned as they are, without TT_EOF
ReturnTokens ==
    /\ status = "running" /\ prog.k = "Text"
    /\ IsNone(current_char(prog.chars, prog.index))
    /\ ret' = Ok(prog.tokens)
    /\ status' = "done"
    /\ UNCHANGED <<prog, tables, contexts, stack, out, steps>>

\* the loop has ended: TT_EOF is pushed and the tokens are returned
PushEOF ==
    /\ status = "running" /\ prog.k = "Text"
    /\ IsNone(current_char(prog.chars, prog.index))
    /\ prog' = [prog EXCEPT !.tokens = Append(@, TT_EOF)]
    /\ ret' = Ok(Append(prog.tokens, TT_EOF))
    /\ status' = "done"
    /\ UNCHANGED <<tables, contexts, stack, out, steps>>

LexNext ==
    \/ SkipBlank
    \/ SkipComment
    \/ PushNewline
    \/ PushNumber
    \/ PushIdentifier
    \/ PushString
    \/ PushSingleChar
    \/ PushMinusOrArrow
    \/ PushNotEquals
    \/ PushEquals
    \/ PushLessThan
    \/ PushGreaterThan
    \/ UnknownChar
    \/ PushEOF

LexSpec == LexInit /\ [][LexNext]_vars

\* C23: when make_tokens returns Ok, the last token is TT_EOF and no token
\* before it is; when it returns Err, the result holds a diagnostic and no
\* tokens. While the loop runs, no token made so far is TT_EOF.
C23_TokensEndInOneEOF ==
    /\ (prog.k = "Text" /\ status = "running") =>
          \A n \in DOMAIN prog.tokens : prog.tokens[n].token_type # "TT_EOF"
    /\ (prog.k = "Text" /\ status = "done") =>
          \/ /\ ret.k = "Ok"
             /\ Len(ret.tokens) >= 1
             /\ ret.tokens[Len(ret.tokens)] = TT_EOF
             /\ \A n \in 1..(Len(ret.tokens) - 1) :
                    ret.tokens[n].token_type # "TT_EOF"
          \/ /\ ret.k = "Err"
             /\ DOMAIN ret = {"k", "error"}
             /\ ret.error.t = "error"

\* the text  or;  lexed to the keyword, the separator and TT_EOF
C23_Witness ==
    /\ prog.k = "Text" /\ status = "done"
    /\ prog.chars = <<"o", "r", ";">>
    /\ ret = Ok(<<Token("TT_KEYWORD", "or"), Token("TT_NEWLINE", ""), TT_EOF>>)

====
